---- MODULE Spec2Model ----
(***************************************************************************)
(* A model of PiliPili_Strm's watch-classify-synchronize pipeline.         *)
(*                                                                         *)
(* Part I  : the debounced FileWatcher of infrastructure/fs/watcher.rs:    *)
(*           its Running/Paused/Stopped lifecycle and the coalescing task  *)
(*           spawned by start_event_processor.  Specification: Spec.       *)
(* Part II : the placeholder (.strm) orchestrator of infrastructure/strm:  *)
(*           generate_strm, sync_directory and the per-event watch loop.   *)
(*           Specification: StrmSpec.                                      *)
(*                                                                         *)
(* Model time is counted in half seconds, so that events can arrive at     *)
(* intervals shorter than the one-second cancellation wait.                *)
(*                                                                         *)
(* Part III: DirSyncHelper::sync of infrastructure/fs/dir_sync_helper.rs:  *)
(*           the precondition checks and the rsync child process.          *)
(*           Specification: DirSpec.                                       *)
(* Part IV : FileSync::new, strm::FileWatcher::new, fs::FileWatcher::new,  *)
(*           the MediaDetector queries and FileHelper, called one at a     *)
(*           time.  Specification: UnitSpec.                               *)
(***************************************************************************)
EXTENDS Integers, Sequences, FiniteSets, TLC

(***************************************************************************)
(* Bounds of the model                                                     *)
(***************************************************************************)
\* OS notifications generated for the debounced watcher in one run
MaxEvents == 2
\* largest debounce_time (in half seconds) a caller asks FileWatcher::new for
MaxDebounceReq == 3
\* distinct closures handed to set_callback
MaxCb == 1

(***************************************************************************)
(* Program constants (time in half seconds)                                *)
(***************************************************************************)
\* Duration::from_secs(2), the clamp of FileWatcher::new
MinDebounce == 4
\* Duration::from_secs(1), the sleep of the cancellation branch
CancelPoll == 2
\* channel(100)
ChannelCapacity == 100
\* "within about one second": twice the cancellation wait
ExitLatency == 2 * CancelPoll

(***************************************************************************)
(* Part I : state of the debounced FileWatcher                             *)
(***************************************************************************)
VARIABLES
    state,          \* FileWatcher.state : WatcherState
    watcher,        \* FileWatcher.watcher is Some (the OS subscription)
    callback,       \* FileWatcher.callback : 0 for None, else the closure's id
    debounce_time,  \* FileWatcher.debounce_time
    event_rx,       \* FileWatcher.event_rx is Some (receiver not yet taken)
    worker_handle,  \* FileWatcher.worker_handle is Some
    should_exit,    \* the AtomicBool
    chan,           \* events in flight in the mpsc channel
    task,           \* the spawned coalescing task (its captured locals)
    abortPending,   \* stop() spawned the aborting task, which has not run yet
    panicked,       \* a call on this instance panicked
    nEvents,        \* history: OS events generated so far
    received,       \* history: events the task took from the channel
    calls,          \* history: callback invocations made by the task
    sinceExit,      \* history: half seconds since should_exit was set
    quiet,          \* history: a debounce sleep expired with no event pending
    lastCall        \* history: the last lifecycle call made on the instance

wvars == <<state, watcher, callback, debounce_time, event_rx, worker_handle,
           should_exit, chan, task, abortPending, panicked, nEvents, received,
           calls, sinceExit, quiet, lastCall>>

(***************************************************************************)
(* Part II : state of the orchestrator (FileSync) and of the file systems  *)
(***************************************************************************)
VARIABLES
    config,     \* the SyncConfig the FileSync was constructed with
    files,      \* the files that exist: path |-> content
    dirs,       \* the directories that exist
    wstatus,    \* watch_directory: "idle", "watching", "failed" or "returned"
    wchan,      \* events in flight in the channel of FileWatcher::watch
    last,       \* outcome of the last call or event: result and calls made
    nSteps      \* history: API calls and changes of src made so far

svars == <<config, files, dirs, wstatus, wchan, last, nSteps>>

(***************************************************************************)
(* Part III : state of a DirSyncHelper and of what it looks at             *)
(***************************************************************************)
VARIABLES
    dconfig,    \* the DirSyncConfig: is a guard file set, has the source an
                \* ssh_config, strict_mode
    dfs,        \* the local file system: do guard file and source path exist
    dsync,      \* the sync() call in progress: position, result, history
    nSyncs      \* history: sync() calls started so far

dvars == <<dconfig, dfs, dsync, nSyncs>>

(***************************************************************************)
(* Part IV : constructors, the classifier and FileHelper, called one at a  *)
(* time                                                                    *)
(***************************************************************************)
VARIABLES
    uconfig,    \* the SyncConfig handed to the constructors
    usync,      \* what FileSync::new returned
    uwatcher,   \* the strm::FileWatcher built by FileWatcher::new on its own
    ustored,    \* fs::FileWatcher::new: the debounce_time asked for and kept
    uanswer,    \* the last call made and what it returned
    ufiles,     \* the directory FileHelper works in: file name |-> content
    udest,      \* the destination tree and the soft-delete directory
    ugen,       \* generate_strm calls in flight and the files they work on
    nCalls      \* history: calls made so far

uvars ==
    <<uconfig, usync, uwatcher, ustored, uanswer, ufiles, udest, ugen, nCalls>>

vars == <<wvars, svars, dvars, uvars>>

WatcherState == {"Running", "Paused", "Stopped"}

\* notify::EventKind, as far as the pipeline tells kinds apart
EventKind == {"Create", "Modify", "Remove", "Access"}

\* the kinds the debounced watcher is driven with
WatchedKind == {"Create", "Remove"}

NoEvent == [id |-> 0, kind |-> "None"]

\* the task before tokio::spawn
NoTask == [status |-> "none", callback |-> 0, last_event |-> NoEvent,
           elapsed |-> 0, armed |-> FALSE]

\* FileWatcher::new as it would be without the clamp
ClampMissing(requested) == requested

\* FileWatcher::new with a minimum below the cancellation wait
ClampBelowCancelPoll(requested) == IF requested < 1 THEN 1 ELSE requested

\* FileWatcher::new clamps the debounce time
Clamp(requested) == IF requested < MinDebounce THEN MinDebounce ELSE requested

WInit ==
    /\ state = "Stopped"
    /\ watcher = FALSE
    /\ callback = 0
    /\ debounce_time \in {Clamp(r) : r \in 0..MaxDebounceReq}
    /\ event_rx = TRUE
    /\ worker_handle = FALSE
    /\ should_exit = FALSE
    /\ chan = <<>>
    /\ task = NoTask
    /\ abortPending = FALSE
    /\ panicked = FALSE
    /\ nEvents = 0
    /\ received = <<>>
    /\ calls = <<>>
    /\ sinceExit = 0
    /\ quiet = FALSE
    /\ lastCall = "new"

TaskRunning == task.status = "running"

\* the receiving half of the channel exists: still in the struct, or owned by
\* the running task
ReceiverAlive == event_rx \/ TaskRunning

(***************************************************************************)
(* Lifecycle: FileWatchable for FileWatcher                                *)
(***************************************************************************)

\* start_event_processor: spawns the coalescing task once; the receiver is
\* taken out of the struct, and taking it a second time panics (expect)
StartEventProcessor ==
    IF worker_handle
    THEN UNCHANGED <<event_rx, worker_handle, task, panicked>>
    ELSE IF ~event_rx
    THEN /\ panicked' = TRUE
         /\ UNCHANGED <<event_rx, worker_handle, task>>
    ELSE /\ task' = [status |-> "running", callback |-> callback,
                     last_event |-> NoEvent, elapsed |-> 0,
                     armed |-> should_exit]
         /\ event_rx' = FALSE
         /\ worker_handle' = TRUE
         /\ UNCHANGED panicked

\* init_watcher: ok is whether create_dir_all, recommended_watcher and watch
\* all succeed
InitWatcher(ok) ==
    IF state # "Stopped" \/ ~ok
    THEN UNCHANGED <<state, watcher, event_rx, worker_handle, task, panicked>>
    ELSE /\ watcher' = TRUE
         /\ state' = "Running"
         /\ StartEventProcessor

Resume(ok) ==
    /\ lastCall' = "resume"
    /\ IF state = "Paused"
       THEN /\ state' = "Running"
            /\ UNCHANGED <<watcher, event_rx, worker_handle, task, panicked>>
       ELSE IF state = "Stopped"
       THEN InitWatcher(ok)
       ELSE UNCHANGED <<state, watcher, event_rx, worker_handle, task, panicked>>
    /\ UNCHANGED <<callback, debounce_time, should_exit, chan, abortPending,
                   nEvents, received, calls, sinceExit>>
    /\ quiet' = quiet
    /\ UNCHANGED <<svars, dvars, uvars>>

\* mutant of Pause: the state test is dropped
PauseAnyState ==
    /\ lastCall' = "pause"
    /\ state' = "Paused"
    /\ UNCHANGED <<watcher, callback, debounce_time, event_rx, worker_handle,
                   should_exit, chan, task, abortPending, panicked, nEvents,
                   received, calls, sinceExit, quiet>>
    /\ UNCHANGED <<svars, dvars, uvars>>

Pause ==
    /\ lastCall' = "pause"
    /\ state' = IF state = "Running" THEN "Paused" ELSE state
    /\ UNCHANGED <<watcher, callback, debounce_time, event_rx, worker_handle,
                   should_exit, chan, task, abortPending, panicked, nEvents,
                   received, calls, sinceExit>>
    /\ quiet' = quiet
    /\ UNCHANGED <<svars, dvars, uvars>>

\* stop: the task is aborted by a task spawned for it, not by stop itself
Stop ==
    /\ lastCall' = "stop"
    /\ IF state # "Stopped"
       THEN /\ state' = "Stopped"
            /\ watcher' = FALSE
            /\ worker_handle' = FALSE
            /\ abortPending' = (abortPending \/ worker_handle)
       ELSE UNCHANGED <<state, watcher, worker_handle, abortPending>>
    /\ UNCHANGED <<callback, debounce_time, event_rx, should_exit, chan, task,
                   panicked, nEvents, received, calls, sinceExit>>
    /\ quiet' = quiet
    /\ UNCHANGED <<svars, dvars, uvars>>

SetCallback(f) ==
    /\ callback' = f
    /\ UNCHANGED <<state, watcher, debounce_time, event_rx, worker_handle,
                   should_exit, chan, task, abortPending, panicked, nEvents,
                   received, calls, sinceExit>>
    /\ lastCall' = lastCall
    /\ quiet' = quiet
    /\ UNCHANGED <<svars, dvars, uvars>>

\* the closure registered by setup_ctrlc_handler
CtrlC ==
    /\ should_exit' = TRUE
    /\ UNCHANGED <<state, watcher, callback, debounce_time, event_rx,
                   worker_handle, chan, task, abortPending, panicked, nEvents,
                   received, calls, sinceExit>>
    /\ lastCall' = lastCall
    /\ quiet' = quiet
    /\ UNCHANGED <<svars, dvars, uvars>>

\* the task spawned by stop: handle.abort()
AbortTask ==
    /\ abortPending
    /\ abortPending' = FALSE
    /\ IF TaskRunning
       THEN /\ task' = [task EXCEPT !.status = "aborted"]
            /\ chan' = <<>>
       ELSE UNCHANGED <<task, chan>>
    /\ UNCHANGED <<state, watcher, callback, debounce_time, event_rx,
                   worker_handle, should_exit, panicked, nEvents, received,
                   calls, sinceExit>>
    /\ lastCall' = lastCall
    /\ quiet' = quiet
    /\ UNCHANGED <<svars, dvars, uvars>>

(***************************************************************************)
(* The OS subscription: the closure given to notify::recommended_watcher   *)
(***************************************************************************)
OsEvent(k) ==
    /\ watcher
    /\ nEvents < MaxEvents
    /\ Len(chan) < ChannelCapacity
    /\ nEvents' = nEvents + 1
    /\ chan' = IF ReceiverAlive
               THEN Append(chan, [id |-> nEvents + 1, kind |-> k])
               ELSE chan
    /\ UNCHANGED <<state, watcher, callback, debounce_time, event_rx,
                   worker_handle, should_exit, task, abortPending, panicked,
                   received, calls, sinceExit>>
    /\ lastCall' = lastCall
    /\ quiet' = quiet
    /\ UNCHANGED <<svars, dvars, uvars>>

(***************************************************************************)
(* The coalescing task: one tokio::select! per loop iteration.  Both       *)
(* sleeps are created anew on every iteration, and the precondition of     *)
(* the cancellation branch is evaluated when the select! is entered.       *)
(***************************************************************************)

\* back at the top of the loop
Reenter(t) == [t EXCEPT !.elapsed = 0, !.armed = should_exit]

\* mutant of TaskRecv: the first event of a window is kept, not the last
TaskRecvKeepFirst ==
    /\ TaskRunning
    /\ chan # <<>>
    /\ task' = [Reenter(task) EXCEPT
                   !.last_event = IF task.last_event = NoEvent
                                  THEN Head(chan)
                                  ELSE task.last_event]
    /\ chan' = Tail(chan)
    /\ received' = Append(received, Head(chan))
    /\ UNCHANGED <<state, watcher, callback, debounce_time, event_rx,
                   worker_handle, should_exit, abortPending, panicked, nEvents,
                   calls, sinceExit, quiet, lastCall>>
    /\ UNCHANGED <<svars, dvars, uvars>>

\* Some(event) = stream.next()
TaskRecv ==
    /\ TaskRunning
    /\ chan # <<>>
    /\ task' = [Reenter(task) EXCEPT !.last_event = Head(chan)]
    /\ chan' = Tail(chan)
    /\ received' = Append(received, Head(chan))
    /\ UNCHANGED <<state, watcher, callback, debounce_time, event_rx,
                   worker_handle, should_exit, abortPending, panicked, nEvents,
                   calls, sinceExit>>
    /\ lastCall' = lastCall
    /\ quiet' = quiet
    /\ UNCHANGED <<svars, dvars, uvars>>

\* the record of one callback invocation
Invocation ==
    [cb |-> task.callback, kind |-> task.last_event.kind,
     id |-> task.last_event.id, nrecv |-> Len(received), state |-> state]

\* mutant of TaskDebounce: the callback runs on every expiry of the sleep
TaskDebounceEveryExpiry ==
    /\ TaskRunning
    /\ task.elapsed >= debounce_time
    /\ calls' = IF task.callback # 0 THEN Append(calls, Invocation) ELSE calls
    /\ task' = [Reenter(task) EXCEPT !.last_event = NoEvent]
    /\ quiet' = (quiet \/ task.last_event = NoEvent)
    /\ UNCHANGED <<state, watcher, callback, debounce_time, event_rx,
                   worker_handle, should_exit, chan, abortPending, panicked,
                   nEvents, received, sinceExit, lastCall>>
    /\ UNCHANGED <<svars, dvars, uvars>>

\* _ = sleep(debounce_time)
TaskDebounce ==
    /\ TaskRunning
    /\ task.elapsed >= debounce_time
    /\ IF task.last_event # NoEvent
       THEN /\ calls' = IF task.callback # 0
                        THEN Append(calls, Invocation)
                        ELSE calls
            /\ task' = [Reenter(task) EXCEPT !.last_event = NoEvent]
       ELSE /\ calls' = calls
            /\ task' = Reenter(task)
    /\ quiet' = (quiet \/ task.last_event = NoEvent)
    /\ UNCHANGED <<state, watcher, callback, debounce_time, event_rx,
                   worker_handle, should_exit, chan, abortPending, panicked,
                   nEvents, received, sinceExit>>
    /\ lastCall' = lastCall
    /\ UNCHANGED <<svars, dvars, uvars>>

\* _ = sleep(1 s), if should_exit  => break
TaskExit ==
    /\ TaskRunning
    /\ task.armed
    /\ task.elapsed >= CancelPoll
    /\ task' = [task EXCEPT !.status = "exited"]
    /\ chan' = <<>>
    /\ UNCHANGED <<state, watcher, callback, debounce_time, event_rx,
                   worker_handle, should_exit, abortPending, panicked, nEvents,
                   received, calls, sinceExit>>
    /\ lastCall' = lastCall
    /\ quiet' = quiet
    /\ UNCHANGED <<svars, dvars, uvars>>

\* half a second passes while the task waits in its select!; whatever is
\* ready (an event, an expired sleep, the abort) is served before time moves
Tick ==
    /\ TaskRunning
    /\ ~abortPending
    /\ chan = <<>>
    /\ task.elapsed < debounce_time
    /\ ~(task.armed /\ task.elapsed >= CancelPoll)
    /\ task' = [task EXCEPT !.elapsed = @ + 1]
    /\ sinceExit' = IF should_exit /\ sinceExit <= ExitLatency
                    THEN sinceExit + 1
                    ELSE sinceExit
    /\ UNCHANGED <<state, watcher, callback, debounce_time, event_rx,
                   worker_handle, should_exit, chan, abortPending, panicked,
                   nEvents, received, calls>>
    /\ lastCall' = lastCall
    /\ quiet' = quiet
    /\ UNCHANGED <<svars, dvars, uvars>>

WNext ==
    \/ \E ok \in BOOLEAN : Resume(ok)
    \/ Pause
    \/ Stop
    \/ \E f \in 1..MaxCb : SetCallback(f)
    \/ CtrlC
    \/ AbortTask
    \/ \E k \in WatchedKind : OsEvent(k)
    \/ TaskRecv
    \/ TaskDebounce
    \/ TaskExit
    \/ Tick

(***************************************************************************)
(* Part II : paths, the classifier and the placeholder codec               *)
(*                                                                         *)
(* A file name is a sequence of characters, so that extension(),           *)
(* with_extension(), eq_ignore_ascii_case() and contains() are computed    *)
(* the way std::path and str compute them.  A path is a root directory     *)
(* (src, dst, the soft-delete directory, the rclone remote), the           *)
(* directories below it and the file name.                                 *)
(***************************************************************************)
Upper == <<"A", "B", "C", "D", "E", "F", "G", "H", "I", "J", "K", "L", "M",
           "N", "O", "P", "Q", "R", "S", "T", "U", "V", "W", "X", "Y", "Z">>
Lower == <<"a", "b", "c", "d", "e", "f", "g", "h", "i", "j", "k", "l", "m",
           "n", "o", "p", "q", "r", "s", "t", "u", "v", "w", "x", "y", "z">>

UpperCase == {Upper[i] : i \in 1..Len(Upper)}
LowerOf == [c \in UpperCase |-> Lower[CHOOSE i \in 1..Len(Upper) : Upper[i] = c]]

\* u8::to_ascii_lowercase
ToAsciiLowercase(c) == IF c \in UpperCase THEN LowerOf[c] ELSE c

\* str::eq_ignore_ascii_case
EqIgnoreAsciiCase(a, b) ==
    /\ Len(a) = Len(b)
    /\ \A i \in 1..Len(a) : ToAsciiLowercase(a[i]) = ToAsciiLowercase(b[i])

\* str::contains
Contains(str, pat) ==
    \E i \in 0..(Len(str) - Len(pat)) : SubSeq(str, i + 1, i + Len(pat)) = pat

EndsWith(str, suffix) ==
    /\ Len(suffix) <= Len(str)
    /\ SubSeq(str, Len(str) - Len(suffix) + 1, Len(str)) = suffix

\* Option::None of Path::extension
NoExt == <<"<none>">>

\* position of the last dot of a file name, 0 if there is none
LastDot(name) ==
    IF \E i \in 1..Len(name) : name[i] = "."
    THEN CHOOSE i \in 1..Len(name) :
             /\ name[i] = "."
             /\ \A j \in (i + 1)..Len(name) : name[j] # "."
    ELSE 0

\* Path::extension: the part after the last dot; none if there is no dot or
\* the only dot starts the name
Extension(name) ==
    LET dot == LastDot(name)
    IN  IF dot <= 1 THEN NoExt ELSE SubSeq(name, dot + 1, Len(name))

\* Path::file_stem
FileStem(name) ==
    LET dot == LastDot(name)
    IN  IF dot <= 1 THEN name ELSE SubSeq(name, 1, dot - 1)

Strm == <<"s", "t", "r", "m">>

\* Path::with_extension("strm")
WithExtension(path) ==
    [path EXCEPT !.name = FileStem(path.name) \o <<".">> \o Strm]

\* Path::strip_prefix(src) followed by dest.join(rel): defined for paths
\* under src only
UnderSrc(path) == path.root = "src"
MapToDest(path) == [path EXCEPT !.root = "dst"]

\* a soft-delete target that keeps the place of the entry below dst
SoftDeleteTargetKeepsDir(path) == [path EXCEPT !.root = "trash"]

\* the soft-delete target: soft_delete_dir.join(path.file_name())
SoftDeleteTarget(path) == [root |-> "trash", dir |-> <<>>, name |-> path.name]

\* the directory a file lies in
Parent(path) == [root |-> path.root, dir |-> path.dir]

(***************************************************************************)
(* MediaDetector                                                           *)
(***************************************************************************)

\* a byte that is no UTF-8: file names are byte strings, and Latin-1 or GBK
\* names hold such bytes
InvalidByte == "0xE9"

\* OsStr::to_str is Some
IsUtf8(str) == \A i \in 1..Len(str) : str[i] # InvalidByte

\* check_extension as it would be without eq_ignore_ascii_case
CheckExtensionCaseSensitive(path, extensions) ==
    LET ext == Extension(path.name)
    IN  /\ ext # NoExt
        /\ IsUtf8(ext)
        /\ ext \in extensions

\* check_extension
CheckExtension(path, extensions) ==
    LET ext == Extension(path.name)
    IN  /\ ext # NoExt
        /\ IsUtf8(ext)
        /\ \E e \in extensions : EqIgnoreAsciiCase(e, ext)

IsVideoFile(cfg, path) == CheckExtension(path, cfg.video_extensions)
IsAudioFile(cfg, path) == CheckExtension(path, cfg.audio_extensions)
IsMediaFile(cfg, path) == IsVideoFile(cfg, path) \/ IsAudioFile(cfg, path)

\* Regex::is_match for the patterns of the model: an optional ^, a literal
\* and an optional $
IsMatch(re, str) ==
    CASE re.start /\ re.end -> str = re.lit
      [] re.start /\ ~re.end -> /\ Len(re.lit) <= Len(str)
                                /\ SubSeq(str, 1, Len(re.lit)) = re.lit
      [] ~re.start /\ re.end -> EndsWith(str, re.lit)
      [] OTHER -> Contains(str, re.lit)

\* should_ignore: the three rules apply to a file name that is UTF-8 only
ShouldIgnore(cfg, path) ==
    LET ext == Extension(path.name)
    IN  /\ IsUtf8(path.name)
        /\ \/ /\ ext # NoExt
              /\ IsUtf8(ext)
              /\ \E e \in cfg.ignore_extensions : EqIgnoreAsciiCase(e, ext)
           \/ \E k \in cfg.ignore_keywords : Contains(path.name, k)
           \/ \E re \in cfg.ignore_regex : IsMatch(re, path.name)

Mkv == <<"m", "k", "v">>
Mp3 == <<"m", "p", "3">>
Txt == <<"t", "x", "t">>

\* what a file holds that is no placeholder written by generate_strm
Payload == [root |-> "payload", dir |-> <<>>, name |-> <<>>]
OldContent == [root |-> "old", dir |-> <<>>, name |-> <<>>]

SrcFile(dir, name) == [root |-> "src", dir |-> dir, name |-> name]

\* the files the owner of the library creates and removes under src
SrcCandidates ==
    { SrcFile(<<>>, <<"a", ".", "m", "k", "v">>),
      SrcFile(<<>>, <<"a", ".", "M", "P", "3">>),
      SrcFile(<<>>, <<"n", ".", "t", "x", "t">>),
      SrcFile(<<"sub">>, <<"a", ".", "m", "k", "v">>) }

\* the libraries a run starts with: a video and a text file, or all of the
\* files
Libraries ==
    { { SrcFile(<<>>, <<"a", ".", "m", "k", "v">>),
        SrcFile(<<>>, <<"n", ".", "t", "x", "t">>) },
      SrcCandidates }

Dir(root, dir) == [root |-> root, dir |-> dir]

\* the configurations of a run: both backends, each with and without a
\* soft-delete directory, half of them with the audio extension on the
\* ignore list, so that every two settings occur together
Configs ==
    { c \in [ video_extensions : {{Mkv}},
              audio_extensions : {{Mp3}},
              ignore_extensions : {{Txt}, {Txt, Mp3}},
              ignore_keywords : {{}},
              ignore_regex : {{}},
              soft_delete_dir : BOOLEAN,
              rclone_remote : BOOLEAN ] :
        (Mp3 \in c.ignore_extensions)
            = (c.soft_delete_dir # c.rclone_remote) }

\* the outcome of a call: err is "" for Ok, else the SyncError variant
\* with the strategy calls made (their names, and the paths given to delete)
\* and the placeholders written
Outcome(name, kind, paths, err, strategy, deletes, writes) ==
    [op |-> name, kind |-> kind, paths |-> paths, err |-> err,
     strategy |-> strategy, deletes |-> deletes, writes |-> writes,
     ret |-> <<>>, tools |-> <<>>, payload |-> <<>>]

SInit ==
    /\ config \in Configs
    /\ \E present \in Libraries, old \in BOOLEAN :
           files = [f \in present \cup
                          (IF old
                           THEN {WithExtension(MapToDest(SrcFile(<<>>, <<"a">>)))}
                           ELSE {})
                      |-> IF f.root = "src" THEN Payload ELSE OldContent]
    /\ \E dst \in BOOLEAN :
           dirs = {Dir("src", <<>>), Dir("src", <<"sub">>), Dir("remote", <<>>)}
                    \cup (IF dst THEN {Dir("dst", <<>>)} ELSE {})
                    \cup (IF config.soft_delete_dir
                          THEN {Dir("trash", <<>>)}
                          ELSE {})
    /\ \A f \in DOMAIN files : Parent(f) \in dirs
    /\ wstatus = "idle"
    /\ wchan = <<>>
    /\ last = Outcome("new", "", <<>>, "", <<>>, <<>>, {})
    /\ nSteps = 0

\* the file system without the files in gone
Without(F, gone) == [f \in DOMAIN F \ gone |-> F[f]]

(***************************************************************************)
(* StrmGenerator                                                           *)
(***************************************************************************)

\* generate_strm without the exists() test of line 26: the placeholder is
\* written whether or not it is there
GenerateStrmAlwaysWrites(F, D, media_path) ==
    LET strm_path == WithExtension(media_path) IN
    IF Parent(strm_path) \notin D
    THEN [files |-> F, err |-> "Io", ret |-> strm_path, wrote |-> FALSE]
    ELSE [files |-> (strm_path :> media_path) @@ F, err |-> "",
          ret |-> strm_path, wrote |-> TRUE]

\* generate_strm writing the placeholder's own path instead of content
GenerateStrmWritesOwnPath(F, D, media_path) ==
    LET strm_path == WithExtension(media_path) IN
    IF strm_path \in DOMAIN F
    THEN [files |-> F, err |-> "", ret |-> strm_path, wrote |-> FALSE]
    ELSE IF Parent(strm_path) \notin D
    THEN [files |-> F, err |-> "Io", ret |-> strm_path, wrote |-> FALSE]
    ELSE [files |-> (strm_path :> strm_path) @@ F, err |-> "",
          ret |-> strm_path, wrote |-> TRUE]

\* generate_strm: the placeholder of media_path; written only if absent
GenerateStrmOn(F, D, media_path) ==
    LET strm_path == WithExtension(media_path) IN
    IF strm_path \in DOMAIN F
    THEN [files |-> F, err |-> "", ret |-> strm_path, wrote |-> FALSE]
    ELSE IF Parent(strm_path) \notin D
    THEN [files |-> F, err |-> "Io", ret |-> strm_path, wrote |-> FALSE]
    ELSE [files |-> (strm_path :> media_path) @@ F, err |-> "",
          ret |-> strm_path, wrote |-> TRUE]

\* the media files generate_strm_for_dir visits below root
MediaUnder(cfg, F, root) ==
    {f \in DOMAIN F : f.root = root /\ IsMediaFile(cfg, f)}

\* a walk that never descends
NoSubDirs(D, d) == {}

\* the directories read_dir yields in directory d
SubDirs(D, d) ==
    {x \in D : /\ x.root = d.root
               /\ Len(x.dir) = Len(d.dir) + 1
               /\ SubSeq(x.dir, 1, Len(d.dir)) = d.dir}

\* the entries of a directory in some order
SeqOf(S) ==
    CHOOSE q \in [1..Cardinality(S) -> S] : {q[i] : i \in DOMAIN q} = S

\* the loop over dir_stack: pop a directory, push its subdirectories, until
\* the stack is empty; the directories popped
RECURSIVE WalkDirs(_, _, _)
WalkDirs(D, dir_stack, visited) ==
    IF dir_stack = <<>>
    THEN visited
    ELSE LET current_dir == dir_stack[Len(dir_stack)] IN
         WalkDirs(D,
                  SubSeq(dir_stack, 1, Len(dir_stack) - 1)
                      \o SeqOf(SubDirs(D, current_dir)),
                  visited \cup {current_dir})

\* a walk that skips what it cannot read or write and returns Ok with the
\* rest
WalkOutcomesSkipFailures(cfg, F, D, root) ==
    LET visited == IF Dir(root, <<>>) \in D
                   THEN WalkDirs(D, <<Dir(root, <<>>)>>, {})
                   ELSE {}
        media == {f \in DOMAIN F :
                    /\ Parent(f) \in visited
                    /\ \/ CheckExtension(f, cfg.video_extensions)
                       \/ CheckExtension(f, cfg.audio_extensions)}
        fresh == {WithExtension(m) : m \in media} \ DOMAIN F
        Firsts(done) == {f \in [done -> media] :
                            \A q \in done : WithExtension(f[q]) = q}
    IN  { [files |-> first @@ F, writes |-> fresh, err |-> "",
           ret |-> [m \in media |-> WithExtension(m)]] :
            first \in IF visited = {} THEN {} ELSE Firsts(fresh) }
        \cup
        UNION { { [files |-> first @@ F, writes |-> done, err |-> "",
                   ret |-> <<>>] : first \in Firsts(done) } :
                done \in SUBSET fresh }

\* generate_strm_for_dir: every file of a visited directory whose extension
\* is a video or audio extension gets generate_strm, in the order read_dir
\* yields them; of several media files with one placeholder path the first
\* one visited writes it.  ret is the result vector (which placeholder path
\* was pushed for which file).  An error of read_dir, next_entry or
\* fs::write ends the walk with Err after some of the placeholders have been
\* written.
WalkOutcomes(cfg, F, D, root) ==
    LET visited == IF Dir(root, <<>>) \in D
                   THEN WalkDirs(D, <<Dir(root, <<>>)>>, {})
                   ELSE {}
        media == {f \in DOMAIN F :
                    /\ Parent(f) \in visited
                    /\ \/ CheckExtension(f, cfg.video_extensions)
                       \/ CheckExtension(f, cfg.audio_extensions)}
        fresh == {WithExtension(m) : m \in media} \ DOMAIN F
        Firsts(done) == {f \in [done -> media] :
                            \A q \in done : WithExtension(f[q]) = q}
    IN  { [files |-> first @@ F, writes |-> fresh, err |-> "",
           ret |-> [m \in media |-> WithExtension(m)]] :
            first \in IF visited = {} THEN {} ELSE Firsts(fresh) }
        \cup
        UNION { { [files |-> first @@ F, writes |-> done, err |-> "Io",
                   ret |-> <<>>] : first \in Firsts(done) } :
                done \in SUBSET fresh }

(***************************************************************************)
(* SyncStrategy: LocalSyncStrategy (rsync, tokio::fs) and                  *)
(* RcloneSyncStrategy (rclone, whose destination is the remote)            *)
(***************************************************************************)

\* a FileSync whose transfers go to the local destination whatever the
\* config
DestRootAlwaysLocal(cfg) == "dst"

\* the root a strategy's transfer writes to
DestRoot(cfg) == IF cfg.rclone_remote THEN "remote" ELSE "dst"

\* where the strategy's transfer and delete find the file of a path given
\* below dst: dst itself, or remote:dst
AtDest(cfg, path) == [path EXCEPT !.root = DestRoot(cfg)]

\* --exclude "*.<ext>" for every video and audio extension: a glob on the
\* name, compared as written
Excluded(cfg, name) ==
    \E e \in cfg.video_extensions \cup cfg.audio_extensions :
        EndsWith(name, <<".">> \o e)

\* rsync -avz src/ dest and rclone copy|sync src/ remote:dest: every file
\* below src that no --exclude matches is written to the same place below
\* the destination; with delete, files of the destination that have no
\* counterpart in src (and that no --exclude protects) are removed
Transfer(cfg, F, D, delete) ==
    LET to == DestRoot(cfg)
        sent == {f \in DOMAIN F : f.root = "src" /\ ~Excluded(cfg, f.name)}
        extraneous ==
            IF delete
            THEN {g \in DOMAIN F :
                    /\ g.root = to
                    /\ ~Excluded(cfg, g.name)
                    /\ [g EXCEPT !.root = "src"] \notin DOMAIN F}
            ELSE {}
        kept == Without(F, extraneous)
        copies == [g \in {[f EXCEPT !.root = to] : f \in sent}
                     |-> F[[g EXCEPT !.root = "src"]]]
    IN  IF Dir("src", <<>>) \notin D
        THEN [files |-> F, dirs |-> D,
              err |-> IF cfg.rclone_remote THEN "RcloneError" ELSE "RsyncError"]
        ELSE [files |-> copies @@ kept,
              dirs |-> D \cup {Dir(to, d.dir) : d \in {x \in D : x.root = "src"}},
              err |-> ""]

CopyWithDelete(cfg, F, D) == Transfer(cfg, F, D, TRUE)

\* copy: rsync(src, dest, false), rclone copy
Copy(cfg, F, D) == Transfer(cfg, F, D, FALSE)

\* sync: rsync(src, dest, true) adds --delete, rclone sync
Sync(cfg, F, D) == Transfer(cfg, F, D, TRUE)

\* LocalSyncStrategy::delete: rename into soft_delete_dir under the file
\* name, or remove_file.  RcloneSyncStrategy::delete: rclone delete.
Delete(cfg, F, D, path) ==
    IF cfg.rclone_remote
    THEN LET remote == [path EXCEPT !.root = "remote"] IN
         IF remote \in DOMAIN F
         THEN [files |-> Without(F, {remote}), err |-> ""]
         ELSE [files |-> F, err |-> "RcloneError"]
    ELSE IF path \notin DOMAIN F
    THEN [files |-> F, err |-> "Io"]
    ELSE IF ~cfg.soft_delete_dir
    THEN [files |-> Without(F, {path}), err |-> ""]
    ELSE IF Dir("trash", <<>>) \notin D
    THEN [files |-> F, err |-> "Io"]
    ELSE [files |-> (SoftDeleteTarget(path) :> F[path]) @@ Without(F, {path}),
          err |-> ""]

\* a strategy that launches a failed command a second time
OutputRetried(cmd, success) ==
    IF success
    THEN <<[cmd |-> cmd, success |-> TRUE, stderr |-> <<cmd, "stderr">>]>>
    ELSE <<[cmd |-> cmd, success |-> FALSE, stderr |-> <<cmd, "stderr">>],
           [cmd |-> cmd, success |-> FALSE, stderr |-> <<cmd, "stderr">>]>>

\* Command::output(): the processes launched by one strategy call, with
\* their exit status and what they wrote to stderr
Output(cmd, success) ==
    <<[cmd |-> cmd, success |-> success, stderr |-> <<cmd, "stderr">>]>>

\* the text a strategy error carries: the stderr of the command that exited
\* with a non-zero status
StderrOf(tools) ==
    IF tools # <<>> /\ ~tools[Len(tools)].success
    THEN tools[Len(tools)].stderr
    ELSE <<>>

\* the error of a failed strategy call: RcloneError for rclone, else the
\* error of the local strategy
ToolError(cfg, local) == IF cfg.rclone_remote THEN "RcloneError" ELSE local

\* a sync_directory that has not created the destination yet when it
\* looks at the operation
EnsureDirectoryNotRun(cfg, D) == D

\* ensure_directory: create_dir_all, or rclone mkdir --parents
EnsureDirectory(cfg, D) == D \cup {Dir(DestRoot(cfg), <<>>)}

(***************************************************************************)
(* FileSync: the API calls                                                 *)
(***************************************************************************)

\* bound: API calls and changes of src, taken together, in one run
MaxSteps == 3

\* get_generator().generate_strm(media_path)
GenerateStrm(media_path) ==
    /\ nSteps < MaxSteps
    /\ nSteps' = nSteps + 1
    /\ LET g == GenerateStrmOn(files, dirs, media_path) IN
       /\ files' = g.files
       /\ last' = [Outcome("generate_strm", "", <<media_path>>, g.err, <<>>,
                           <<>>, IF g.wrote THEN {g.ret} ELSE {})
                       EXCEPT !.ret = IF g.err = "" THEN <<g.ret>> ELSE <<>>]
    /\ UNCHANGED <<config, dirs, wstatus, wchan>>
    /\ UNCHANGED <<wvars, dvars, uvars>>

\* get_generator().generate_strm_for_dir(src)
GenerateStrmForDir ==
    /\ nSteps < MaxSteps
    /\ nSteps' = nSteps + 1
    /\ \E w \in WalkOutcomes(config, files, dirs, "src") :
           /\ files' = w.files
           /\ last' = [Outcome("generate_strm_for_dir", "", <<>>, w.err, <<>>,
                               <<>>, w.writes) EXCEPT !.ret = w.ret]
    /\ UNCHANGED <<config, dirs, wstatus, wchan>>
    /\ UNCHANGED <<wvars, dvars, uvars>>

\* sync_directory(src, dest, operation)
SyncDirectory(operation) ==
    /\ nSteps < MaxSteps
    /\ nSteps' = nSteps + 1
    /\ LET ensured == EnsureDirectory(config, dirs)
           Mkdir(success) == IF config.rclone_remote
                             THEN Output(<<"rclone", "mkdir">>, success)
                             ELSE <<>>
           Tool(success) == IF config.rclone_remote
                            THEN Output(<<"rclone", operation>>, success)
                            ELSE Output(<<"rsync">>, success)
           Result(F, D, err, steps, writes, tools) ==
               /\ files' = F
               /\ dirs' = D
               /\ last' = [Outcome("sync_directory", operation, <<>>, err,
                                   steps, <<>>, writes)
                              EXCEPT !.tools = tools,
                                     !.payload = StderrOf(tools)]
       IN  \/ Result(files, dirs, ToolError(config, "Io"),
                     <<"ensure_directory">>, {}, Mkdir(FALSE))
           \/ \E w \in WalkOutcomes(config, files, dirs, "src") :
                LET t == IF operation = "copy"
                         THEN Copy(config, w.files, ensured)
                         ELSE Sync(config, w.files, ensured)
                    generated == <<"ensure_directory", "generate_strm_for_dir">>
                IN  IF w.err # ""
                    THEN Result(w.files, ensured, w.err, generated, w.writes,
                                Mkdir(TRUE))
                    ELSE IF operation \notin {"copy", "sync"}
                    THEN Result(w.files, ensured, "UnsupportedOperation",
                                generated, w.writes, Mkdir(TRUE))
                    ELSE \/ /\ t.err = ""
                            /\ Result(t.files, t.dirs, "",
                                      Append(generated, operation), w.writes,
                                      Mkdir(TRUE) \o Tool(TRUE))
                         \/ Result(w.files, ensured,
                                   ToolError(config, "RsyncError"),
                                   Append(generated, operation), w.writes,
                                   Mkdir(TRUE) \o Tool(FALSE))
    /\ UNCHANGED <<config, wstatus, wchan>>
    /\ UNCHANGED <<wvars, dvars, uvars>>

(***************************************************************************)
(* watch_directory: strm::FileWatcher::watch and the closure of FileSync   *)
(***************************************************************************)

\* channel(32)
WatchChannelCapacity == 32

\* watch_directory that subscribes to src before it looks for the watcher
WatchDirectorySubscribesFirst ==
    /\ wstatus = "idle"
    /\ nSteps < MaxSteps
    /\ nSteps' = nSteps + 1
    /\ wstatus' = "watching"
    /\ last' = Outcome("watch_directory", "", <<>>,
                       IF config.soft_delete_dir THEN "" ELSE "ConfigError",
                       <<>>, <<>>, {})
    /\ UNCHANGED <<config, files, dirs, wchan>>
    /\ UNCHANGED <<wvars, dvars, uvars>>

\* watch_directory up to the subscription: a FileSync built without
\* soft_delete_dir holds no watcher; Watcher::new(..)? and
\* watcher.watch(path, Recursive)? return the error of notify
WatchDirectory ==
    /\ wstatus = "idle"
    /\ nSteps < MaxSteps
    /\ nSteps' = nSteps + 1
    /\ IF config.soft_delete_dir
       THEN \/ /\ wstatus' = "watching"
               /\ last' = Outcome("watch_directory", "", <<>>, "", <<>>,
                                  <<>>, {})
            \/ /\ wstatus' = wstatus
               /\ last' = Outcome("watch_directory", "", <<>>,
                                  "NotifyError", <<>>, <<>>, {})
       ELSE /\ wstatus' = wstatus
            /\ last' = Outcome("watch_directory", "", <<>>, "ConfigError",
                               <<>>, <<>>, {})
    /\ UNCHANGED <<config, files, dirs, wchan>>
    /\ UNCHANGED <<wvars, dvars, uvars>>

\* the closure with a Remove branch that deletes for media files only
DispatchRemoveMediaOnly(cfg, D, kind, path, st) ==
    CASE kind \in {"Create", "Modify"} ->
           IF ~IsMediaFile(cfg, path)
           THEN st
           ELSE IF ~UnderSrc(path)
           THEN [st EXCEPT !.err = "PathError"]
           ELSE LET g == GenerateStrmOn(st.files, D, MapToDest(path)) IN
                [st EXCEPT !.files = g.files, !.err = g.err,
                           !.writes = IF g.wrote THEN @ \cup {g.ret} ELSE @]
      [] kind = "Remove" ->
           IF ~IsMediaFile(cfg, path)
           THEN st
           ELSE IF ~UnderSrc(path)
           THEN [st EXCEPT !.err = "PathError"]
           ELSE LET d == Delete(cfg, st.files, D, MapToDest(path)) IN
                [st EXCEPT !.files = d.files, !.err = d.err,
                           !.strategy = Append(@, "delete"),
                           !.deletes = Append(@, MapToDest(path)),
                           !.tools = IF cfg.rclone_remote
                                     THEN @ \o Output(<<"rclone", "delete">>,
                                                      d.err = "")
                                     ELSE @]
      [] OTHER -> st

\* the closure watch_directory hands to watch: one path of one event
Dispatch(cfg, D, kind, path, st) ==
    CASE kind \in {"Create", "Modify"} ->
           IF ~IsMediaFile(cfg, path)
           THEN st
           ELSE IF ~UnderSrc(path)
           THEN [st EXCEPT !.err = "PathError"]
           ELSE LET g == GenerateStrmOn(st.files, D, MapToDest(path)) IN
                [st EXCEPT !.files = g.files, !.err = g.err,
                           !.writes = IF g.wrote THEN @ \cup {g.ret} ELSE @]
      [] kind = "Remove" ->
           IF ~UnderSrc(path)
           THEN [st EXCEPT !.err = "PathError"]
           ELSE LET d == Delete(cfg, st.files, D, MapToDest(path)) IN
                [st EXCEPT !.files = d.files, !.err = d.err,
                           !.strategy = Append(@, "delete"),
                           !.deletes = Append(@, MapToDest(path)),
                           !.tools = IF cfg.rclone_remote
                                     THEN @ \o Output(<<"rclone", "delete">>,
                                                      d.err = "")
                                     ELSE @]
      [] OTHER -> st

\* handle_event: every path of the event that should_ignore does not filter
\* goes to the closure; the first error ends the loop
RECURSIVE HandlePaths(_, _, _, _, _)
HandlePaths(cfg, D, kind, paths, st) ==
    IF paths = <<>> \/ st.err # ""
    THEN st
    ELSE IF ShouldIgnore(cfg, Head(paths))
    THEN HandlePaths(cfg, D, kind, Tail(paths), st)
    ELSE HandlePaths(cfg, D, kind, Tail(paths),
                     Dispatch(cfg, D, kind, Head(paths), st))

\* a loop that takes the newest event of the channel instead of the oldest
HandleEventNewestFirst ==
    /\ wstatus = "watching"
    /\ wchan # <<>>
    /\ LET event == wchan[Len(wchan)]
           st == HandlePaths(config, dirs, event.kind, event.paths,
                             [files |-> files, err |-> "", strategy |-> <<>>,
                              deletes |-> <<>>, writes |-> {}, tools |-> <<>>])
       IN  /\ files' = st.files
           /\ last' = [Outcome("event", event.kind, event.paths, st.err,
                               st.strategy, st.deletes, st.writes)
                          EXCEPT !.tools = st.tools,
                                 !.payload = StderrOf(st.tools)]
           /\ wstatus' = IF st.err = "" THEN "watching" ELSE "failed"
           /\ wchan' = IF st.err = "" THEN SubSeq(wchan, 1, Len(wchan) - 1)
                       ELSE <<>>
    /\ UNCHANGED <<config, dirs, nSteps>>
    /\ UNCHANGED <<wvars, dvars, uvars>>

\* a loop that logs the error of an event and goes on with the next one
HandleEventSwallowsErrors ==
    /\ wstatus = "watching"
    /\ wchan # <<>>
    /\ LET event == Head(wchan)
           st == HandlePaths(config, dirs, event.kind, event.paths,
                             [files |-> files, err |-> "", strategy |-> <<>>,
                              deletes |-> <<>>, writes |-> {}, tools |-> <<>>])
       IN  /\ files' = st.files
           /\ last' = [Outcome("event", event.kind, event.paths, st.err,
                               st.strategy, st.deletes, st.writes)
                          EXCEPT !.tools = st.tools,
                                 !.payload = StderrOf(st.tools)]
           /\ wstatus' = "watching"
           /\ wchan' = Tail(wchan)
    /\ UNCHANGED <<config, dirs, nSteps>>
    /\ UNCHANGED <<wvars, dvars, uvars>>

\* a watch whose subscription, and with it tx, is dropped before the loop
SendersDroppedEarly(status) == 0

\* the senders of the channel while watch_directory is in `status`: tx is
\* moved into the closure of the subscription, and the subscription is a
\* local of watch that lives until watch returns
Senders(status) == IF status = "watching" THEN 1 ELSE 0

\* one iteration of `while let Some(event) = rx.recv().await`: recv yields
\* the oldest event, waits while the channel is empty and a sender is
\* alive, and yields None, which ends the loop and makes watch return
\* Ok(()), when the channel is empty and no sender is left
HandleEvent ==
    /\ wstatus = "watching"
    /\ IF wchan = <<>>
       THEN /\ Senders(wstatus) = 0
            /\ wstatus' = "returned"
            /\ last' = Outcome("watch_directory", "", <<>>, "", <<>>, <<>>,
                               {})
            /\ UNCHANGED <<files, wchan>>
       ELSE LET event == Head(wchan)
                st == HandlePaths(config, dirs, event.kind, event.paths,
                                  [files |-> files, err |-> "",
                                   strategy |-> <<>>, deletes |-> <<>>,
                                   writes |-> {}, tools |-> <<>>])
            IN  /\ files' = st.files
                /\ last' = [Outcome("event", event.kind, event.paths, st.err,
                                    st.strategy, st.deletes, st.writes)
                               EXCEPT !.tools = st.tools,
                                      !.payload = StderrOf(st.tools)]
                /\ wstatus' = IF st.err = "" THEN "watching" ELSE "failed"
                /\ wchan' = IF st.err = "" THEN Tail(wchan) ELSE <<>>
    /\ UNCHANGED <<config, dirs, nSteps>>
    /\ UNCHANGED <<wvars, dvars, uvars>>

\* the notify callback of watch: tx.blocking_send(event)
Notify(kind, paths) ==
    IF wstatus = "watching" /\ Len(wchan) < WatchChannelCapacity
    THEN wchan' = Append(wchan, [kind |-> kind, paths |-> paths])
    ELSE wchan' = wchan

\* the owner of the library creates, touches, reads or removes a file
\* below src
FsCreate(path) ==
    /\ nSteps < MaxSteps
    /\ path \notin DOMAIN files
    /\ files' = (path :> Payload) @@ files
    /\ Notify("Create", <<path>>)
    /\ nSteps' = nSteps + 1
    /\ UNCHANGED <<config, dirs, wstatus, last>>
    /\ UNCHANGED <<wvars, dvars, uvars>>

FsModify(path) ==
    /\ nSteps < MaxSteps
    /\ wstatus = "watching"
    /\ path \in DOMAIN files
    /\ Notify("Modify", <<path>>)
    /\ nSteps' = nSteps + 1
    /\ UNCHANGED <<config, files, dirs, wstatus, last>>
    /\ UNCHANGED <<wvars, dvars, uvars>>

FsAccess(path) ==
    /\ nSteps < MaxSteps
    /\ wstatus = "watching"
    /\ path \in DOMAIN files
    /\ Notify("Access", <<path>>)
    /\ nSteps' = nSteps + 1
    /\ UNCHANGED <<config, files, dirs, wstatus, last>>
    /\ UNCHANGED <<wvars, dvars, uvars>>

FsRemove(path) ==
    /\ nSteps < MaxSteps
    /\ path \in DOMAIN files
    /\ files' = Without(files, {path})
    /\ Notify("Remove", <<path>>)
    /\ nSteps' = nSteps + 1
    /\ UNCHANGED <<config, dirs, wstatus, last>>
    /\ UNCHANGED <<wvars, dvars, uvars>>

\* a file is renamed: one Modify event with both paths
FsRename(from, to) ==
    /\ nSteps < MaxSteps
    /\ from \in DOMAIN files
    /\ to \notin DOMAIN files
    /\ files' = (to :> files[from]) @@ Without(files, {from})
    /\ Notify("Modify", <<from, to>>)
    /\ nSteps' = nSteps + 1
    /\ UNCHANGED <<config, dirs, wstatus, last>>
    /\ UNCHANGED <<wvars, dvars, uvars>>

\* the paths below src that change: the library's files and the
\* placeholders generated next to them
SrcPaths == SrcCandidates \cup {WithExtension(f) : f \in SrcCandidates}

SNext ==
    \/ \E f \in SrcCandidates : GenerateStrm(f)
    \/ GenerateStrmForDir
    \/ \E operation \in {"copy", "sync", "move"} : SyncDirectory(operation)
    \/ WatchDirectory
    \/ HandleEvent
    \/ \E f \in SrcCandidates : FsCreate(f)
    \/ \E f \in SrcCandidates : FsModify(f)
    \/ \E f \in SrcCandidates : FsAccess(f)
    \/ \E f \in SrcPaths : FsRemove(f)
    \/ \E f, g \in SrcCandidates : FsRename(f, g)

(***************************************************************************)
(* Part III : DirSyncHelper::sync                                          *)
(***************************************************************************)

\* bound: sync() calls in one run
MaxSyncs == 2

DirSyncConfigs ==
    [guard_file : BOOLEAN, source_ssh : BOOLEAN, strict_mode : BOOLEAN]

\* bounds: what the child writes to one stream, and what a pipe holds
\* before a write to it blocks, both counted in lines
MaxOutput == 3
PipeCapacity == 2

\* no child process
NoChild == [status |-> "none", out_left |-> 0, err_left |-> 0]

\* no sync() call in progress
NotCalled ==
    [pc |-> "idle", result |-> "", checks |-> <<>>, spawned |-> 0,
     args |-> {}, stream |-> "", child |-> NoChild, out_pipe |-> 0,
     err_pipe |-> 0]

DInit ==
    /\ dconfig \in DirSyncConfigs
    /\ dfs \in [guard : BOOLEAN, source : BOOLEAN]
    /\ dsync = NotCalled
    /\ nSyncs = 0

\* sync() is entered
DirSync ==
    /\ dsync.pc \in {"idle", "returned"}
    /\ nSyncs < MaxSyncs
    /\ nSyncs' = nSyncs + 1
    /\ dsync' = [NotCalled EXCEPT !.pc = "check_guard_file"]
    /\ UNCHANGED <<dconfig, dfs>>
    /\ UNCHANGED <<wvars, svars, uvars>>

\* the outcome of a sync() that returns at once with Err
Aborted(d, check, err) ==
    [d EXCEPT !.pc = "returned", !.result = err,
              !.checks = Append(@, check)]

\* a guard that lets sync() go on whether or not the guard file exists
CheckGuardFileLenient ==
    /\ dsync.pc = "check_guard_file"
    /\ dsync' = [dsync EXCEPT !.pc = "check_source_dir",
                              !.checks = Append(@, "guard")]
    /\ UNCHANGED <<dconfig, dfs, nSyncs>>
    /\ UNCHANGED <<wvars, svars, uvars>>

\* self.check_guard_file()?
CheckGuardFile ==
    /\ dsync.pc = "check_guard_file"
    /\ dsync' = IF dconfig.guard_file /\ ~dfs.guard
                THEN Aborted(dsync, "guard", "GuardFileMissing")
                ELSE [dsync EXCEPT !.pc = "check_source_dir",
                                   !.checks = Append(@, "guard")]
    /\ UNCHANGED <<dconfig, dfs, nSyncs>>
    /\ UNCHANGED <<wvars, svars, uvars>>

\* self.check_source_dir()?
CheckSourceDir ==
    /\ dsync.pc = "check_source_dir"
    /\ dsync' = IF ~dconfig.source_ssh /\ ~dfs.source
                THEN Aborted(dsync, "source", "SourceMissing")
                ELSE [dsync EXCEPT !.pc = "spawn",
                                   !.checks = Append(@, "source")]
    /\ UNCHANGED <<dconfig, dfs, nSyncs>>
    /\ UNCHANGED <<wvars, svars, uvars>>

\* build_rsync_command and cmd.spawn()?: rsync may be missing.  The child
\* starts with both streams piped and some lines to write to each.
Spawn(ok) ==
    /\ dsync.pc = "spawn"
    /\ IF ok
       THEN \E out, err \in 0..MaxOutput :
                dsync' = [dsync EXCEPT
                             !.pc = "process_output",
                             !.stream = "stdout",
                             !.spawned = @ + 1,
                             !.args = IF dconfig.strict_mode
                                      THEN {"--delete"}
                                      ELSE {},
                             !.child = [status |-> "running",
                                        out_left |-> out, err_left |-> err]]
       ELSE dsync' = [dsync EXCEPT !.pc = "returned", !.result = "Io"]
    /\ UNCHANGED <<dconfig, dfs, nSyncs>>
    /\ UNCHANGED <<wvars, svars, uvars>>

\* the child writes a line to its stdout; the write blocks while the pipe
\* is full
ChildWritesStdout ==
    /\ dsync.child.status = "running"
    /\ dsync.child.out_left > 0
    /\ dsync.out_pipe < PipeCapacity
    /\ dsync' = [dsync EXCEPT !.child.out_left = @ - 1, !.out_pipe = @ + 1]
    /\ UNCHANGED <<dconfig, dfs, nSyncs>>
    /\ UNCHANGED <<wvars, svars, uvars>>

\* the child writes a line to its stderr; the write blocks while the pipe
\* is full
ChildWritesStderr ==
    /\ dsync.child.status = "running"
    /\ dsync.child.err_left > 0
    /\ dsync.err_pipe < PipeCapacity
    /\ dsync' = [dsync EXCEPT !.child.err_left = @ - 1, !.err_pipe = @ + 1]
    /\ UNCHANGED <<dconfig, dfs, nSyncs>>
    /\ UNCHANGED <<wvars, svars, uvars>>

\* the child has written everything and exits: both pipes are closed at its
\* end
ChildExits ==
    /\ dsync.child.status = "running"
    /\ dsync.child.out_left = 0
    /\ dsync.child.err_left = 0
    /\ dsync' = [dsync EXCEPT !.child.status = "exited"]
    /\ UNCHANGED <<dconfig, dfs, nSyncs>>
    /\ UNCHANGED <<wvars, svars, uvars>>

\* process_output, `for line in stdout_reader.lines()`: a line is read if
\* the pipe holds one, the loop ends at end-of-file, i.e. when the pipe is
\* empty and the child has closed it; else the read blocks.  `line?`
\* returns the error of a line that is not UTF-8.
ReadStdout ==
    /\ dsync.pc = "process_output"
    /\ dsync.stream = "stdout"
    /\ \/ /\ dsync.out_pipe > 0
          /\ dsync' = [dsync EXCEPT !.out_pipe = @ - 1]
       \/ /\ dsync.out_pipe > 0
          /\ dsync' = [dsync EXCEPT !.out_pipe = @ - 1, !.pc = "returned",
                                    !.stream = "", !.result = "Io"]
       \/ /\ dsync.out_pipe = 0
          /\ dsync.child.status = "exited"
          /\ dsync' = [dsync EXCEPT !.stream = "stderr"]
    /\ UNCHANGED <<dconfig, dfs, nSyncs>>
    /\ UNCHANGED <<wvars, svars, uvars>>

\* process_output, `for line in stderr_reader.lines()`
ReadStderr ==
    /\ dsync.pc = "process_output"
    /\ dsync.stream = "stderr"
    /\ \/ /\ dsync.err_pipe > 0
          /\ dsync' = [dsync EXCEPT !.err_pipe = @ - 1]
       \/ /\ dsync.err_pipe > 0
          /\ dsync' = [dsync EXCEPT !.err_pipe = @ - 1, !.pc = "returned",
                                    !.stream = "", !.result = "Io"]
       \/ /\ dsync.err_pipe = 0
          /\ dsync.child.status = "exited"
          /\ dsync' = [dsync EXCEPT !.pc = "wait", !.stream = ""]
    /\ UNCHANGED <<dconfig, dfs, nSyncs>>
    /\ UNCHANGED <<wvars, svars, uvars>>

\* child.wait()? and the test of the exit status
Wait(success) ==
    /\ dsync.pc = "wait"
    /\ dsync.child.status = "exited"
    /\ dsync' = [dsync EXCEPT !.pc = "returned",
                              !.result = IF success THEN "Ok"
                                         ELSE "RsyncFailed"]
    /\ UNCHANGED <<dconfig, dfs, nSyncs>>
    /\ UNCHANGED <<wvars, svars, uvars>>

\* someone creates or removes the guard file or the source directory
GuardFileChanges ==
    /\ dfs' = [dfs EXCEPT !.guard = ~@]
    /\ UNCHANGED <<dconfig, dsync, nSyncs>>
    /\ UNCHANGED <<wvars, svars, uvars>>

SourceDirChanges ==
    /\ dfs' = [dfs EXCEPT !.source = ~@]
    /\ UNCHANGED <<dconfig, dsync, nSyncs>>
    /\ UNCHANGED <<wvars, svars, uvars>>

DNext ==
    \/ DirSync
    \/ CheckGuardFile
    \/ CheckSourceDir
    \/ \E ok \in BOOLEAN : Spawn(ok)
    \/ ChildWritesStdout
    \/ ChildWritesStderr
    \/ ChildExits
    \/ ReadStdout
    \/ ReadStderr
    \/ \E success \in BOOLEAN : Wait(success)
    \/ GuardFileChanges
    \/ SourceDirChanges

(***************************************************************************)
(* Part IV : constructors, the classifier and FileHelper                   *)
(***************************************************************************)
MaxCalls == 3
MaxRequest == 6

\* Regex::new for the patterns of the model: an optional ^, a literal and an
\* optional $; a group that is opened and never closed is a syntax error
RegexNew(pattern) ==
    IF \E i \in 1..Len(pattern) : pattern[i] = "("
    THEN [ok |-> FALSE]
    ELSE LET start == Len(pattern) > 0 /\ pattern[1] = "^"
             end == Len(pattern) > 0 /\ pattern[Len(pattern)] = "$"
         IN  [ok |-> TRUE,
              re |-> [start |-> start, end |-> end,
                      lit |-> SubSeq(pattern, IF start THEN 2 ELSE 1,
                                     IF end THEN Len(pattern) - 1
                                     ELSE Len(pattern))]]

\* MediaDetector::new: the patterns are compiled, the first error is returned
MediaDetectorNew(cfg) ==
    IF \E p \in cfg.ignore_regex : ~RegexNew(p).ok
    THEN [ok |-> FALSE, err |-> "RegexError"]
    ELSE [ok |-> TRUE,
          detector |-> [cfg EXCEPT
                           !.ignore_regex = {RegexNew(p).re : p \in @}]]

NoDetector == [none |-> TRUE]

\* strm::FileWatcher::new: MediaDetector::new(config).ok()
StrmFileWatcherNew(cfg) ==
    [media_detector |-> IF MediaDetectorNew(cfg).ok
                        THEN MediaDetectorNew(cfg).detector
                        ELSE NoDetector]

NotBuilt == [built |-> FALSE, err |-> ""]
NoWatcher == [none |-> TRUE]

\* FileSync::new
FileSyncNewResult(cfg) ==
    IF ~MediaDetectorNew(cfg).ok
    THEN [built |-> FALSE, err |-> MediaDetectorNew(cfg).err]
    ELSE [built |-> TRUE, err |-> "",
          detector |-> MediaDetectorNew(cfg).detector,
          strategy |-> IF cfg.rclone_remote THEN "Rclone" ELSE "Local",
          watcher |-> IF cfg.soft_delete_dir
                      THEN StrmFileWatcherNew(cfg)
                      ELSE NoWatcher]

\* the file names the classifier is asked about
UnitNames ==
    { <<"a", ".", "m", "k", "v">>,
      <<"a", ".", "M", "K", "V">>,
      <<"a", ".", "M", "p", "3">>,
      <<"n", ".", "t", "x", "t">>,
      <<"N", ".", "T", "X", "T">>,
      <<"m", "k", "v">>,
      <<".", "m", "k", "v">>,
      <<InvalidByte, ".", "t", "x", "t">>,
      <<"a", ".", InvalidByte>> }

\* the configurations the constructors are given: with and without each
\* ignore rule, with a pattern that does not compile, with both backends
UnitConfigs ==
    [ video_extensions : {{Mkv}},
      audio_extensions : {{Mp3}},
      ignore_extensions : {{}, {Txt}},
      ignore_keywords : {{}, {<<"m", "k">>}},
      ignore_regex : {{}, {<<"^", "n">>}, {<<"v", "$">>, <<"(">>}},
      soft_delete_dir : BOOLEAN,
      rclone_remote : BOOLEAN ]

NoAnswer == [op |-> "none"]

\* the directory FileHelper works in
WorkDir == "/w"
AbsPath(name) == [dir |-> WorkDir, name |-> name]
Original == <<"t", ".", "t", "x", "t">>
Missing == <<"x", ".", "t", "x", "t">>

\* the entries of the destination that delete is called for: two
\* placeholders with one file name, in dst and in a directory below it
DestEntries ==
    { [root |-> "dst", dir |-> <<>>, name |-> <<"a", ".", "s", "t", "r", "m">>],
      [root |-> "dst", dir |-> <<"sub">>,
       name |-> <<"a", ".", "s", "t", "r", "m">>] }

\* the directories that exist: those of the entries and the soft-delete
\* directory
DestDirs == {Parent(p) : p \in DestEntries} \cup {Dir("trash", <<>>)}

\* the tasks that call generate_strm
Tasks == {1, 2}

\* the media paths handed to generate_strm: two that share a placeholder,
\* one of its own, and one that is not UTF-8
GenMedia ==
    { [root |-> "dst", dir |-> <<>>, name |-> n] :
          n \in { <<"a", ".", "m", "k", "v">>, <<"a", ".", "M", "p", "3">>,
                  <<"n", ".", "t", "x", "t">>, <<"a", ".", InvalidByte>> } }

\* no generate_strm call made by a task
NoCall ==
    [pc |-> "idle", media_path |-> [root |-> "", dir |-> <<>>, name |-> <<>>],
     err |-> ""]

\* no call in flight, no placeholder, nothing written
NoGen == [calls |-> [t \in Tasks |-> NoCall], files |-> <<>>, writes |-> <<>>]

UInit ==
    /\ uconfig \in UnitConfigs
    /\ usync = NotBuilt
    /\ uwatcher = NoWatcher
    /\ ustored = [requested |-> 0, debounce_time |-> 0, built |-> FALSE]
    /\ uanswer = NoAnswer
    /\ ufiles = (Original :> [payload |-> TRUE])
    /\ udest = [p \in DestEntries |-> [p EXCEPT !.root = "src"]]
    /\ ugen = NoGen
    /\ nCalls = 0

Called ==
    /\ nCalls < MaxCalls
    /\ nCalls' = nCalls + 1

\* FileSync::new(config)
FileSyncNew ==
    /\ Called
    /\ usync' = FileSyncNewResult(uconfig)
    /\ uanswer' = [op |-> "FileSync::new", err |-> usync'.err]
    /\ UNCHANGED <<uconfig, uwatcher, ustored, ufiles, udest, ugen>>
    /\ UNCHANGED <<wvars, svars, dvars>>

\* strm::FileWatcher::new(config)
FileWatcherNew ==
    /\ Called
    /\ uwatcher' = StrmFileWatcherNew(uconfig)
    /\ uanswer' = [op |-> "FileWatcher::new", err |-> ""]
    /\ UNCHANGED <<uconfig, usync, ustored, ufiles, udest, ugen>>
    /\ UNCHANGED <<wvars, svars, dvars>>

\* fs::FileWatcher::new(debounce_time)
DebouncedWatcherNew ==
    /\ Called
    /\ \E requested \in 0..MaxRequest :
           ustored' = [requested |-> requested,
                       debounce_time |-> Clamp(requested), built |-> TRUE]
    /\ uanswer' = [op |-> "fs::FileWatcher::new", err |-> ""]
    /\ UNCHANGED <<uconfig, usync, uwatcher, ufiles, udest, ugen>>
    /\ UNCHANGED <<wvars, svars, dvars>>

\* detector.should_ignore(path) on the detector of the FileSync
QueryShouldIgnore ==
    /\ Called
    /\ usync.built
    /\ \E name \in UnitNames :
           uanswer' = [op |-> "should_ignore", name |-> name, err |-> "",
                       result |-> ShouldIgnore(usync.detector,
                                               SrcFile(<<>>, name))]
    /\ UNCHANGED <<uconfig, usync, uwatcher, ustored, ufiles, udest, ugen>>
    /\ UNCHANGED <<wvars, svars, dvars>>

\* detector.is_media_file(path) on the detector of the FileSync
QueryIsMediaFile ==
    /\ Called
    /\ usync.built
    /\ \E name \in UnitNames :
           uanswer' = [op |-> "is_media_file", name |-> name, err |-> "",
                       result |-> IsMediaFile(usync.detector,
                                              SrcFile(<<>>, name))]
    /\ UNCHANGED <<uconfig, usync, uwatcher, ustored, ufiles, udest, ugen>>
    /\ UNCHANGED <<wvars, svars, dvars>>

\* handle_event of a strm::FileWatcher for an event with one path: without a
\* detector it returns an error, an ignored path is skipped, any other is
\* handed to the callback
HandleEventOf(w, name) ==
    IF w.media_detector = NoDetector
    THEN [op |-> "handle_event", name |-> name, err |-> "ConfigError",
          result |-> FALSE]
    ELSE [op |-> "handle_event", name |-> name, err |-> "",
          result |-> ~ShouldIgnore(w.media_detector, SrcFile(<<>>, name))]

\* an event reaches the watcher FileWatcher::new built
WatcherHandleEvent ==
    /\ Called
    /\ uwatcher # NoWatcher
    /\ \E name \in UnitNames : uanswer' = HandleEventOf(uwatcher, name)
    /\ UNCHANGED <<uconfig, usync, uwatcher, ustored, ufiles, udest, ugen>>
    /\ UNCHANGED <<wvars, svars, dvars>>

\* an event reaches the watcher of the FileSync
SyncHandleEvent ==
    /\ Called
    /\ usync.built
    /\ usync.watcher # NoWatcher
    /\ \E name \in UnitNames : uanswer' = HandleEventOf(usync.watcher, name)
    /\ UNCHANGED <<uconfig, usync, uwatcher, ustored, ufiles, udest, ugen>>
    /\ UNCHANGED <<wvars, svars, dvars>>

DigitChars == <<"0", "1", "2", "3", "4", "5", "6", "7", "8", "9">>

\* the Display of an integer
RECURSIVE Decimal(_)
Decimal(n) ==
    IF n < 10
    THEN <<DigitChars[n + 1]>>
    ELSE Decimal(n \div 10) \o <<DigitChars[(n % 10) + 1]>>

\* Path::with_extension(extension) on a file name
WithExtensionOf(name, extension) == FileStem(name) \o <<".">> \o extension

\* the conflict loop: the stem is taken from the candidate that exists
RECURSIVE ResolveConflict(_, _, _, _, _)
ResolveConflict(F, original, new_file_path, extension, count) ==
    IF new_file_path \notin DOMAIN F
    THEN new_file_path
    ELSE ResolveConflict(
             F, original,
             WithExtensionOf(FileStem(new_file_path) \o <<"-">>
                                 \o Decimal(count),
                             extension),
             extension, count + 1)

\* FileHelper::create_file_with_extension(file_path, "strm")
CreateFileWithExtension ==
    /\ Called
    /\ \E file_path \in {Original, Missing} :
           IF file_path \notin DOMAIN ufiles
           THEN /\ uanswer' = [op |-> "create_file_with_extension",
                               name |-> file_path, err |-> "None"]
                /\ ufiles' = ufiles
           ELSE LET absolute_path == AbsPath(file_path)
                    new_file_path ==
                        ResolveConflict(ufiles, file_path,
                                        WithExtensionOf(file_path, Strm),
                                        Strm, 1)
                IN  /\ ufiles' = (new_file_path :>
                                     [payload |-> FALSE,
                                      line |-> absolute_path,
                                      newline |-> TRUE]) @@ ufiles
                    /\ uanswer' = [op |-> "create_file_with_extension",
                                   name |-> file_path, err |-> "",
                                   result |-> AbsPath(new_file_path),
                                   before |-> DOMAIN ufiles]
    /\ UNCHANGED <<uconfig, usync, uwatcher, ustored, udest, ugen>>
    /\ UNCHANGED <<wvars, svars, dvars>>

\* strategy.delete(path) on the strategy of the FileSync
StrategyDelete ==
    /\ Called
    /\ usync.built
    /\ \E path \in DestEntries :
           LET d == Delete(uconfig, udest, DestDirs, path)
           IN  /\ udest' = d.files
               /\ uanswer' = [op |-> "delete", path |-> path, err |-> d.err]
    /\ UNCHANGED <<uconfig, usync, uwatcher, ustored, ufiles, ugen>>
    /\ UNCHANGED <<wvars, svars, dvars>>

\* generate_strm of the generator of a FileSync (get_generator), up to its
\* await: with_extension("strm"), the test strm_path.exists() and
\* media_path.to_str()
GenerateStrmCheck(t, media_path) ==
    /\ Called
    /\ usync.built
    /\ ugen.calls[t].pc \in {"idle", "returned"}
    /\ ugen' = [ugen EXCEPT !.calls[t] =
                   IF WithExtension(media_path) \in DOMAIN ugen.files
                   THEN [pc |-> "returned", media_path |-> media_path,
                         err |-> ""]
                   ELSE IF ~IsUtf8(media_path.name)
                   THEN [pc |-> "returned", media_path |-> media_path,
                         err |-> "PathError"]
                   ELSE [pc |-> "write", media_path |-> media_path,
                         err |-> ""]]
    /\ UNCHANGED <<uconfig, usync, uwatcher, ustored, uanswer, ufiles, udest>>
    /\ UNCHANGED <<wvars, svars, dvars>>

\* generate_strm from its await on: fs::write(&strm_path, content).await?
\* creates the file or replaces its content, or fails
GenerateStrmWrite(t) ==
    /\ ugen.calls[t].pc = "write"
    /\ LET media_path == ugen.calls[t].media_path
           strm_path == WithExtension(media_path)
       IN  \/ ugen' = [ugen EXCEPT
                          !.calls[t].pc = "returned",
                          !.files = (strm_path :> media_path) @@ @,
                          !.writes = Append(@, [path |-> strm_path,
                                                content |-> media_path,
                                                by |-> t])]
           \/ ugen' = [ugen EXCEPT !.calls[t].pc = "returned",
                                   !.calls[t].err = "Io"]
    /\ UNCHANGED <<uconfig, usync, uwatcher, ustored, uanswer, ufiles, udest,
                   nCalls>>
    /\ UNCHANGED <<wvars, svars, dvars>>

UNext ==
    \/ StrategyDelete
    \/ \E t \in Tasks, media_path \in GenMedia : GenerateStrmCheck(t, media_path)
    \/ \E t \in Tasks : GenerateStrmWrite(t)
    \/ FileSyncNew
    \/ FileWatcherNew
    \/ DebouncedWatcherNew
    \/ QueryShouldIgnore
    \/ QueryIsMediaFile
    \/ WatcherHandleEvent
    \/ SyncHandleEvent
    \/ CreateFileWithExtension

(***************************************************************************)
(* The specifications                                                      *)
(***************************************************************************)

\* no FileSync has been constructed
SIdle ==
    /\ config = [video_extensions |-> {}, audio_extensions |-> {},
                 ignore_extensions |-> {}, ignore_keywords |-> {},
                 ignore_regex |-> {}, soft_delete_dir |-> FALSE,
                 rclone_remote |-> FALSE]
    /\ files = <<>>
    /\ dirs = {}
    /\ wstatus = "idle"
    /\ wchan = <<>>
    /\ last = Outcome("none", "", <<>>, "", <<>>, <<>>, {})
    /\ nSteps = 0

\* no debounced watcher is in use: one built with the smallest request
WIdle == WInit /\ debounce_time = Clamp(0)

\* no DirSyncHelper is in use
DIdle ==
    /\ dconfig = [guard_file |-> FALSE, source_ssh |-> FALSE,
                  strict_mode |-> FALSE]
    /\ dfs = [guard |-> FALSE, source |-> FALSE]
    /\ dsync = NotCalled
    /\ nSyncs = 0

\* nothing has been constructed on its own
UIdle ==
    /\ uconfig = [video_extensions |-> {}, audio_extensions |-> {},
                  ignore_extensions |-> {}, ignore_keywords |-> {},
                  ignore_regex |-> {}, soft_delete_dir |-> FALSE,
                  rclone_remote |-> FALSE]
    /\ usync = NotBuilt
    /\ uwatcher = NoWatcher
    /\ ustored = [requested |-> 0, debounce_time |-> 0, built |-> FALSE]
    /\ uanswer = NoAnswer
    /\ ufiles = <<>>
    /\ udest = <<>>
    /\ ugen = NoGen
    /\ nCalls = 0

\* Spec: the debounced FileWatcher of infrastructure/fs
Init == WInit /\ SIdle /\ DIdle /\ UIdle

Next == WNext

Spec == Init /\ [][Next]_vars

\* StrmSpec: the orchestrator of infrastructure/strm
StrmInit == SInit /\ WIdle /\ DIdle /\ UIdle

StrmNext == SNext

StrmSpec == StrmInit /\ [][StrmNext]_vars

\* DirSpec: DirSyncHelper::sync
DirInit == DInit /\ WIdle /\ SIdle /\ UIdle

DirNext == DNext

DirSpec == DirInit /\ [][DirNext]_vars

\* UnitSpec: the constructors, the classifier and FileHelper
UnitInit == UInit /\ WIdle /\ SIdle /\ DIdle

UnitNext == UNext

UnitSpec == UnitInit /\ [][UnitNext]_vars

(***************************************************************************)
(* Claims about the debounced FileWatcher (checked under Spec)             *)
(***************************************************************************)

NoCallbackWhilePaused ==
    \A i \in 1..Len(calls) : calls[i].state # "Paused"

\* stop() took effect on this instance: the task was spawned and its handle
\* was taken again
StopTookEffect == ~event_rx /\ ~worker_handle

\* C3 (as claimed): once stop() took effect the state stays Stopped.
StoppedIsTerminal == StopTookEffect => state = "Stopped"

\* C4: resume() in Running, pause() in Paused or Stopped and stop() in
\* Stopped leave the state, the subscription, the worker handle and the
\* worker task as they are.
IllegalCallsAreNoOps ==
    [][ (\/ (state = "Running" /\ \E ok \in BOOLEAN : Resume(ok))
         \/ (state \in {"Paused", "Stopped"} /\ Pause)
         \/ (state = "Stopped" /\ Stop))
        => UNCHANGED <<state, watcher, worker_handle, event_rx, task,
                       abortPending, chan, callback>> ]_vars

\* C4 witness: pause() was the last call and found the watcher stopped by
\* an earlier stop()
IllegalCallsAreNoOpsWitness ==
    /\ lastCall = "pause"
    /\ state = "Stopped"
    /\ StopTookEffect

\* C5 (as claimed): the task observes the cancellation flag within about one
\* second of its being set, whatever the debounce interval.
CancellationObservedInTime ==
    (should_exit /\ TaskRunning) => sinceExit <= ExitLatency

\* C6: an expiry of the debounce sleep with no event pending invokes no
\* callback, and there are never more callback invocations than events
\* received.
QuietWindowSilence ==
    /\ [](Len(calls) <= Len(received))
    /\ [][ (TaskDebounce /\ task.last_event = NoEvent) => calls' = calls ]_vars

\* C6 witness: a debounce sleep expired on a task that has a callback and
\* had received nothing, and nothing was invoked
QuietWindowSilenceWitness ==
    /\ quiet
    /\ task.callback # 0
    /\ received = <<>>
    /\ calls = <<>>

(***************************************************************************)
(* Claims about the orchestrator (checked under StrmSpec)                  *)
(***************************************************************************)

\* C21 (as claimed): once stop() has returned on a running watcher, the
\* task invokes no callback: no invocation finds the state Stopped.
NoCallbackAfterStop ==
    \A i \in 1..Len(calls) : calls[i].state # "Stopped"

\* C22 (as claimed): once set_callback(f) has returned, the delivery of an
\* event invokes f: the closure registered at that moment, not an earlier
\* one and not none.
SetCallbackReplaces ==
    [][ (TaskDebounce /\ task.last_event # NoEvent /\ callback # 0)
        => /\ Len(calls') = Len(calls) + 1
           /\ calls'[Len(calls')].cb = callback ]_vars

\* C23: a strategy command that exits with a non-zero status ends the
\* call with the strategy's error, which carries what that command wrote to
\* stderr; it is the last command the call launched and no command is
\* launched twice in one call.  A call whose commands all succeeded does not
\* return the error of a command.
ToolFailureReportedOnce ==
    LET n == Len(last.tools) IN
    /\ \A i \in 1..n :
          ~last.tools[i].success
          => /\ i = n
             /\ last.err = IF config.rclone_remote
                           THEN "RcloneError"
                           ELSE "RsyncError"
             /\ last.payload = last.tools[i].stderr
    /\ \A i, j \in 1..n : last.tools[i].cmd = last.tools[j].cmd => i = j
    /\ (last.err \in {"RsyncError", "RcloneError"}
            /\ last.op = "sync_directory")
          => (n > 0 /\ ~last.tools[n].success)

\* C23 witness: sync_directory has returned the error of a transfer command
\* that failed after rclone mkdir had succeeded
ToolFailureReportedOnceWitness ==
    /\ last.op = "sync_directory"
    /\ last.err = "RcloneError"
    /\ Len(last.tools) = 2
    /\ last.tools[1].success
    /\ ~last.tools[2].success
    /\ last.payload = last.tools[2].stderr

\* C24: on a FileSync built without soft_delete_dir, watch_directory
\* returns ConfigError and does nothing else: no file or directory changes,
\* no placeholder is written, no strategy method is called, no command is
\* launched and src is not subscribed to, so that no event is ever queued
\* or dispatched.
WatchWithoutWatcherFails ==
    /\ [](~config.soft_delete_dir
             => (wstatus = "idle" /\ wchan = <<>> /\ last.op # "event"))
    /\ [][ (/\ last'.op = "watch_directory"
            /\ ~config.soft_delete_dir
            /\ WatchDirectory)
           => /\ last'.err = "ConfigError"
              /\ last'.strategy = <<>>
              /\ last'.writes = {}
              /\ last'.tools = <<>>
              /\ UNCHANGED <<files, dirs, wstatus, wchan>> ]_vars

\* C24 witness: watch_directory has returned ConfigError on a FileSync
\* without watcher, after an earlier call or change of src
WatchWithoutWatcherFailsWitness ==
    /\ ~config.soft_delete_dir
    /\ last.op = "watch_directory"
    /\ last.err = "ConfigError"
    /\ wstatus = "idle"
    /\ nSteps > 1

\* C7 (as claimed): no call of generate_strm, generate_strm_for_dir or
\* sync_directory and no dispatch of a watch event changes the content of a
\* .strm file that exists already.
PlaceholderNeverOverwritten ==
    [][ (\/ \E f \in SrcCandidates : GenerateStrm(f)
         \/ GenerateStrmForDir
         \/ \E operation \in {"copy", "sync", "move"} : SyncDirectory(operation)
         \/ HandleEvent)
        => \A p \in DOMAIN files :
               (Extension(p.name) = Strm /\ p \in DOMAIN files')
                   => files'[p] = files[p] ]_vars

\* C7: placeholder generation never rewrites a file: generate_strm,
\* generate_strm_for_dir (also as the first step of sync_directory) and the
\* dispatch of a Create or Modify event leave every existing file with its
\* content, write only paths that did not exist, and generate_strm on a
\* media path whose placeholder exists returns that placeholder's path and
\* writes nothing.
PlaceholderGenerationIdempotent ==
    /\ [](\A f \in SrcCandidates :
            LET g == GenerateStrmOn(files, dirs, f) IN
            /\ g.ret = WithExtension(f)
            /\ WithExtension(f) \in DOMAIN files
                   => (g.files = files /\ ~g.wrote /\ g.err = ""))
    /\ [](\A w \in WalkOutcomes(config, files, dirs, "src") :
            \A p \in DOMAIN files : p \in DOMAIN w.files /\ w.files[p] = files[p])
    /\ [][ (\/ /\ last'.op = "generate_strm"
               /\ \E f \in SrcCandidates : GenerateStrm(f)
            \/ /\ last'.op = "generate_strm_for_dir"
               /\ GenerateStrmForDir
            \/ /\ wchan # <<>>
               /\ Head(wchan).kind \in {"Create", "Modify"}
               /\ HandleEvent)
           => /\ \A p \in DOMAIN files :
                     p \in DOMAIN files' /\ files'[p] = files[p]
              /\ last'.writes = DOMAIN files' \ DOMAIN files ]_vars

\* C7 witness: generate_strm returned Ok without writing, and the placeholder
\* of its media path still holds the path of another media file
PlaceholderGenerationIdempotentWitness ==
    /\ last.op = "generate_strm"
    /\ last.err = ""
    /\ last.writes = {}
    /\ WithExtension(last.paths[1]) \in DOMAIN files
    /\ files[WithExtension(last.paths[1])] \in SrcCandidates \ {last.paths[1]}

\* C8 (as claimed): the placeholder a Create or Modify event of a media,
\* non-ignored source file makes watch_directory write at the mapped
\* destination holds the path of the source file.
WatchPlaceholderPointsToSource ==
    (last.op = "event" /\ last.kind \in {"Create", "Modify"})
        => \A i \in 1..Len(last.paths) :
               LET p == last.paths[i]
                   strm_path == WithExtension(MapToDest(p))
               IN  (/\ IsMediaFile(config, p)
                    /\ ~ShouldIgnore(config, p)
                    /\ strm_path \in last.writes)
                       => files[strm_path] = p

\* C9 (as claimed): the Remove event of a media, non-ignored source file
\* whose placeholder exists at the destination makes the orchestrator call
\* strategy.delete on the placeholder's path, after which the placeholder
\* is no longer at the destination and, with a soft-delete directory, lies
\* there under its name.
RemovedEventDeletesPlaceholder ==
    [][ (HandleEvent /\ Head(wchan).kind = "Remove")
        => \A i \in 1..Len(Head(wchan).paths) :
               LET p == Head(wchan).paths[i]
                   strm_path == WithExtension(MapToDest(p))
               IN  (/\ IsMediaFile(config, p)
                    /\ ~ShouldIgnore(config, p)
                    /\ strm_path \in DOMAIN files)
                       => /\ last'.deletes = <<strm_path>>
                          /\ strm_path \notin DOMAIN files'
                          /\ config.soft_delete_dir
                                 => SoftDeleteTarget(strm_path) \in DOMAIN files'
           ]_vars

\* C10 (as claimed): every Remove event of a path under src makes
\* watch_directory call strategy.delete once, on the mapped destination
\* path, whatever the path's name.
RemovedEventAlwaysDeletes ==
    (last.op = "event" /\ last.kind = "Remove")
        => last.deletes = [i \in 1..Len(last.paths) |-> MapToDest(last.paths[i])]

\* C10: a Remove event of one path under src makes watch_directory call
\* strategy.delete once, on the mapped destination path, if the path matches
\* no ignore rule, media file or not, and makes it call nothing if the path
\* matches one.
RemovedEventDeletesUnlessIgnored ==
    (last.op = "event" /\ last.kind = "Remove" /\ Len(last.paths) = 1)
        => /\ UnderSrc(last.paths[1])
           /\ last.deletes = IF ShouldIgnore(config, last.paths[1])
                             THEN <<>>
                             ELSE <<MapToDest(last.paths[1])>>
           /\ last.strategy = [i \in 1..Len(last.deletes) |-> "delete"]

\* C10 witness: the Remove event of an ignored path was handled without
\* error and without a call of strategy.delete
RemovedEventDeletesUnlessIgnoredWitness ==
    /\ last.op = "event"
    /\ last.kind = "Remove"
    /\ Len(last.paths) = 1
    /\ ShouldIgnore(config, last.paths[1])
    /\ last.err = ""
    /\ last.deletes = <<>>

\* C11 (as claimed): after a successful sync_directory(src, dst, "copy")
\* every media file of src has, at the same place below the destination, a
\* .strm file whose content is the path of that media file.
CopyLeavesPlaceholderForEveryMedia ==
    [][ (SyncDirectory("copy") /\ last'.err = "")
        => \A f \in MediaUnder(config, files', "src") :
               /\ AtDest(config, WithExtension(f)) \in DOMAIN files'
               /\ files'[AtDest(config, WithExtension(f))] = f ]_vars

\* C12 (as claimed): after sync_directory(src, dst, "copy") no file of src
\* that matches an ignore rule exists at the destination.
CopySkipsIgnoredFiles ==
    [][ SyncDirectory("copy")
        => \A f \in DOMAIN files' :
               (f.root = "src" /\ ShouldIgnore(config, f))
                   => AtDest(config, f) \notin DOMAIN files' ]_vars

\* C13 (as claimed): copy and sync transfer no media file: no file of src
\* for which is_media_file holds appears at the destination through
\* sync_directory.
TransferExcludesMedia ==
    [][ (SyncDirectory("copy") \/ SyncDirectory("sync"))
        => \A f \in MediaUnder(config, files', "src") :
               AtDest(config, f) \notin DOMAIN files' \ DOMAIN files ]_vars

\* C14 (as claimed): with a soft-delete directory configured, a successful
\* strategy.delete of either backend moves the entry into that directory
\* under its file name, content kept.
DeleteQuarantinesWhenConfigured ==
    [][ (/\ HandleEvent
         /\ Head(wchan).kind = "Remove"
         /\ last'.err = ""
         /\ Len(last'.deletes) = 1
         /\ config.soft_delete_dir)
        => LET entry == AtDest(config, last'.deletes[1]) IN
           /\ entry \notin DOMAIN files'
           /\ SoftDeleteTarget(entry) \in DOMAIN files'
           /\ files'[SoftDeleteTarget(entry)] = files[entry] ]_vars

\* C17: sync_directory runs ensure_directory, then the generation of the
\* placeholders of the whole tree, then the transfer, and stops at the first
\* step that fails: a failed ensure_directory leaves every file as it was, a
\* failed generation leaves the destination as it was, and a transfer that ran
\* carries the placeholders written by the same call.  The transfer of "copy"
\* removes nothing from the destination; the transfer of "sync" leaves no
\* transferable file at the destination that src does not have.
SyncDirectoryStepOrder ==
    [][ \A operation \in {"copy", "sync"} :
          (/\ last'.op = "sync_directory"
           /\ last'.kind = operation
           /\ SyncDirectory(operation))
          => LET steps == <<"ensure_directory", "generate_strm_for_dir",
                            operation>>
                 n == Len(last'.strategy)
                 AtDestination(F) == {g \in DOMAIN F : g.root = DestRoot(config)}
             IN  /\ n \in 1..3
                 /\ last'.strategy = SubSeq(steps, 1, n)
                 /\ n < 3 => last'.err # ""
                 /\ n = 1 => files' = files /\ last'.writes = {}
                 /\ n < 3 => /\ AtDestination(files') = AtDestination(files)
                             /\ \A g \in AtDestination(files) :
                                    files'[g] = files[g]
                 /\ last'.err = ""
                      => /\ \A p \in last'.writes :
                                /\ AtDest(config, p) \in DOMAIN files'
                                /\ files'[AtDest(config, p)] = files'[p]
                         /\ operation = "copy"
                              => AtDestination(files) \subseteq DOMAIN files'
                         /\ operation = "sync"
                              => \A g \in AtDestination(files') :
                                     \/ Excluded(config, g.name)
                                     \/ [g EXCEPT !.root = "src"]
                                            \in DOMAIN files' ]_vars

\* C17 witness: a "copy" that wrote a placeholder and transferred it has
\* returned Ok, and the destination still holds a transferable file that src
\* does not have
SyncDirectoryStepOrderWitness ==
    /\ last.op = "sync_directory"
    /\ last.kind = "copy"
    /\ last.err = ""
    /\ last.strategy = <<"ensure_directory", "generate_strm_for_dir", "copy">>
    /\ \E p \in last.writes : AtDest(config, p) \in DOMAIN files
    /\ \E g \in DOMAIN files :
          /\ g.root = DestRoot(config)
          /\ ~Excluded(config, g.name)
          /\ [g EXCEPT !.root = "src"] \notin DOMAIN files

\* C18 (as claimed): no two media files share a placeholder: after a
\* successful generate_strm_for_dir every media file below src has a
\* placeholder of its own, whose content is that file's path.
PlaceholdersOneToOne ==
    [][ (GenerateStrmForDir /\ last'.err = "")
        => \A f, g \in MediaUnder(config, files', "src") :
               /\ f # g => WithExtension(f) # WithExtension(g)
               /\ WithExtension(f) \in DOMAIN files'
               /\ files'[WithExtension(f)] = f ]_vars

\* C19: when the placeholder of media_path does not exist and
\* generate_strm(media_path) returns Ok, it has created exactly one file: the
\* one in the directory of media_path whose name is the stem of media_path
\* followed by ".strm"; its content is media_path, no other file has
\* changed, and the path returned is the path of that file.
GenerateStrmCreatesPlaceholder ==
    /\ [](\A media_path \in SrcCandidates :
            LET g == GenerateStrmOn(files, dirs, media_path) IN
            (WithExtension(media_path) \notin DOMAIN files /\ g.err = "")
            => /\ g.wrote
               /\ g.ret.root = media_path.root
               /\ g.ret.dir = media_path.dir
               /\ g.ret.name = FileStem(media_path.name) \o <<".">> \o Strm
               /\ DOMAIN g.files = DOMAIN files \cup {g.ret}
               /\ g.files[g.ret] = media_path
               /\ \A p \in DOMAIN files : g.files[p] = files[p])
    /\ [][ \A media_path \in SrcCandidates :
             (/\ last'.op = "generate_strm"
              /\ last'.err = ""
              /\ WithExtension(media_path) \notin DOMAIN files
              /\ GenerateStrm(media_path))
             => /\ last'.ret = <<WithExtension(media_path)>>
                /\ last'.writes = {WithExtension(media_path)}
                /\ DOMAIN files' = DOMAIN files \cup {WithExtension(media_path)}
                /\ files'[WithExtension(media_path)] = media_path
                /\ \A p \in DOMAIN files : files'[p] = files[p] ]_vars

\* C19 witness: generate_strm has returned the path of the placeholder it
\* has just written, and the placeholder holds the media path
GenerateStrmCreatesPlaceholderWitness ==
    /\ last.op = "generate_strm"
    /\ last.err = ""
    /\ last.writes = {WithExtension(last.paths[1])}
    /\ last.ret = <<WithExtension(last.paths[1])>>
    /\ files[WithExtension(last.paths[1])] = last.paths[1]

\* C20: generate_strm_for_dir ends, and when it returns Ok its result has
\* one entry for every file below the directory, at any depth, whose
\* extension is, letter case aside, a configured video or audio extension:
\* the placeholder path of that file.  It has no entry for any other file,
\* ignored files are not left out, and every order of traversal gives the
\* same result.
WalkReturnsPlaceholderPerMedia ==
    /\ [](LET W == WalkOutcomes(config, files, dirs, "src")
              wanted ==
                {f \in DOMAIN files :
                   /\ f.root = "src"
                   /\ LastDot(f.name) > 1
                   /\ \E e \in config.video_extensions
                                 \cup config.audio_extensions :
                         EqIgnoreAsciiCase(e, Extension(f.name))}
          IN  /\ \E w \in W : w.err = ""
              /\ \A w \in W :
                    w.err = ""
                    => /\ DOMAIN w.ret = wanted
                       /\ \A f \in wanted : w.ret[f] = WithExtension(f))
    /\ [][ (last'.op = "generate_strm_for_dir" /\ last'.err = ""
                /\ GenerateStrmForDir)
           => /\ DOMAIN last'.ret
                    = {f \in DOMAIN files : f.root = "src" /\ IsMediaFile(config, f)}
              /\ \A f \in DOMAIN last'.ret :
                     /\ last'.ret[f] = WithExtension(f)
                     /\ last'.ret[f] \in DOMAIN files' ]_vars

\* C20 witness: generate_strm_for_dir has returned a placeholder path for a
\* media file of a subdirectory and for a media file on the ignore list, and
\* none for a file that is not a media file
WalkReturnsPlaceholderPerMediaWitness ==
    /\ last.op = "generate_strm_for_dir"
    /\ last.err = ""
    /\ \E f \in DOMAIN last.ret : f.dir # <<>>
    /\ \E f \in DOMAIN last.ret : ShouldIgnore(config, f)
    /\ \E f \in DOMAIN files :
          f.root = "src" /\ Extension(f.name) # Strm /\ f \notin DOMAIN last.ret

DirSyncShortCircuits ==
    /\ [][ (CheckGuardFile /\ dconfig.guard_file /\ ~dfs.guard)
           => /\ dsync'.pc = "returned"
              /\ dsync'.result = "GuardFileMissing"
              /\ dsync'.spawned = 0 ]_vars
    /\ [][ (CheckSourceDir /\ ~dconfig.source_ssh /\ ~dfs.source)
           => /\ dsync'.pc = "returned"
              /\ dsync'.result = "SourceMissing"
              /\ dsync'.spawned = 0 ]_vars
    /\ [](dsync.result \in {"GuardFileMissing", "SourceMissing"}
            => dsync.spawned = 0 /\ dsync.pc = "returned")
    /\ [](dsync.checks \in {<<>>, <<"guard">>, <<"guard", "source">>})
    /\ [](dsync.pc \in {"spawn", "process_output", "wait"} \/ dsync.spawned > 0
            => dsync.checks = <<"guard", "source">>)

\* C15 witness: sync() returned the guard-file error, with no process
\* spawned and the source never looked at, although the source path does not
\* exist either
DirSyncShortCircuitsWitness ==
    /\ dsync.pc = "returned"
    /\ dsync.result = "GuardFileMissing"
    /\ dsync.checks = <<"guard">>
    /\ dsync.spawned = 0
    /\ ~dconfig.source_ssh
    /\ ~dfs.source
    /\ ~dfs.guard

\* C28: the backend of a FileSync is given by its config and never changes:
\* the config is fixed, and every sync_directory and every dispatched event
\* uses rclone (rclone commands, RcloneError, files of the remote) exactly
\* when rclone_remote is set and the local strategy (rsync, the local
\* destination and the soft-delete directory) otherwise.
BackendFixedByConfig ==
    /\ [][config' = config]_vars
    /\ [](\A i \in 1..Len(last.tools) :
             last.tools[i].cmd[1] =
                 IF config.rclone_remote THEN "rclone" ELSE "rsync")
    /\ [](/\ last.err = "RcloneError" => config.rclone_remote
          /\ last.err = "RsyncError" => ~config.rclone_remote)
    /\ [](~config.rclone_remote
            => \A f \in DOMAIN files : f.root # "remote")
    /\ [][ (/\ last'.op = "sync_directory"
            /\ last'.err = ""
            /\ last'.kind \in {"copy", "sync"}
            /\ SyncDirectory(last'.kind)
            /\ config.rclone_remote)
           => /\ Len(last'.tools) = 2
              /\ \A f \in DOMAIN files' :
                     f.root \in {"dst", "trash"} => f \in DOMAIN files
              /\ \A f \in DOMAIN files' :
                     (f.root = "src" /\ ~Excluded(config, f.name))
                         => [f EXCEPT !.root = "remote"] \in DOMAIN files' ]_vars
    /\ [][ (/\ last'.op = "sync_directory"
            /\ last'.err = ""
            /\ last'.kind \in {"copy", "sync"}
            /\ SyncDirectory(last'.kind)
            /\ ~config.rclone_remote)
           => /\ Len(last'.tools) = 1
              /\ \A f \in DOMAIN files' :
                     (f.root = "src" /\ ~Excluded(config, f.name))
                         => [f EXCEPT !.root = "dst"] \in DOMAIN files' ]_vars
    /\ [][ (/\ HandleEvent
            /\ last'.strategy # <<>>)
           => IF config.rclone_remote
              THEN /\ Len(last'.tools) = Len(last'.strategy)
                   /\ \A f \in DOMAIN files :
                          f.root # "remote" => f \in DOMAIN files'
                   /\ \A f \in DOMAIN files' :
                          f.root = "trash" => f \in DOMAIN files
              ELSE last'.tools = <<>> ]_vars

\* C28 witness: a FileSync built with rclone_remote, whose sync_directory
\* filled the remote, has removed a file of the remote with rclone delete
\* when an event was dispatched
BackendFixedByConfigWitness ==
    /\ config.rclone_remote
    /\ last.op = "event"
    /\ last.tools # <<>>
    /\ last.tools[1].cmd = <<"rclone", "delete">>
    /\ last.tools[1].success
    /\ \E f \in DOMAIN files : f.root = "remote"

(***************************************************************************)
(* Claims about the constructors, the classifier and FileHelper (checked   *)
(* under UnitSpec)                                                         *)
(***************************************************************************)

\* some ignore_regex pattern of the config does not compile
HasInvalidRegex(cfg) == \E p \in cfg.ignore_regex : ~RegexNew(p).ok

\* C25: a config with an ignore_regex pattern that is no regular expression
\* makes FileSync::new return the regex error, so that no FileSync exists for
\* it, and the pattern never first shows up as an error of an event that is
\* classified or dispatched: handle_event returns no error.
InvalidRegexFailsFast ==
    /\ HasInvalidRegex(uconfig) => ~usync.built
    /\ (uanswer.op = "FileSync::new" /\ HasInvalidRegex(uconfig))
           => uanswer.err = "RegexError"
    /\ uanswer.op = "handle_event" => uanswer.err = ""

\* C26: should_ignore(path) is true exactly when the extension of the path
\* is in the ignore-extension set (compared as the code compares, ignoring
\* ASCII case), or the file name contains an ignore keyword, or the file
\* name matches an ignore regex: the union of the three rules, whatever the
\* path.
ShouldIgnoreIsUnionOfRules ==
    uanswer.op = "should_ignore" =>
        LET name == uanswer.name
        IN  uanswer.result =
                (\/ /\ Extension(name) # NoExt
                    /\ \E e \in uconfig.ignore_extensions :
                           EqIgnoreAsciiCase(e, Extension(name))
                 \/ \E k \in uconfig.ignore_keywords : Contains(name, k)
                 \/ \E p \in uconfig.ignore_regex :
                        IsMatch(RegexNew(p).re, name))

\* C27: is_media_file(path) is true exactly when the path has an extension
\* (a dot that is not the first character of the file name, followed by the
\* extension) whose lower-cased form is the lower-cased form of a configured
\* video or audio extension; a path without an extension is never media.
IsMediaFileIgnoresCase ==
    uanswer.op = "is_media_file" =>
        LET name == uanswer.name
            Lowered(str) == [i \in 1..Len(str) |-> ToAsciiLowercase(str[i])]
            hasExtension == \E i \in 2..Len(name) : name[i] = "."
            configured == uconfig.video_extensions
                              \cup uconfig.audio_extensions
        IN  /\ uanswer.result =
                   (/\ hasExtension
                    /\ \E e \in configured :
                           Lowered(e) = Lowered(Extension(name)))
            /\ ~hasExtension => ~uanswer.result

\* C27 witness: a file whose extension is a video extension written in upper
\* case was classified as media
IsMediaFileIgnoresCaseWitness ==
    /\ uanswer.op = "is_media_file"
    /\ uanswer.name = <<"a", ".", "M", "K", "V">>
    /\ Mkv \in uconfig.video_extensions
    /\ uanswer.result

\* C29: create_file_with_extension appends incrementing numbers to the stem
\* of the original file: when <stem>.<ext> and <stem>-1.<ext> up to
\* <stem>-(k-1).<ext> exist and <stem>-k.<ext> does not, the call creates
\* <stem>-k.<ext>; the file it creates did not exist before, and holds the
\* absolute path of the original file.
ConflictsNumberedFromOriginalStem ==
    (uanswer.op = "create_file_with_extension" /\ uanswer.err = "") =>
        LET stem == FileStem(uanswer.name)
            Candidate(k) ==
                IF k = 0
                THEN stem \o <<".">> \o Strm
                ELSE stem \o <<"-">> \o Decimal(k) \o <<".">> \o Strm
            free == CHOOSE k \in 0..MaxCalls :
                        /\ Candidate(k) \notin uanswer.before
                        /\ \A j \in 0..(k - 1) :
                               Candidate(j) \in uanswer.before
        IN  /\ uanswer.result = AbsPath(Candidate(free))
            /\ uanswer.result.name \notin uanswer.before
            /\ ufiles[uanswer.result.name].line = AbsPath(uanswer.name)

\* C30: for every requested debounce_time, fs::FileWatcher::new keeps the
\* larger of the request and 2 seconds: the interval kept is never below 2
\* seconds, never below the request, and is the request itself whenever
\* that is at least 2 seconds.
DebounceClampedAtConstruction ==
    ustored.built =>
        /\ ustored.debounce_time \in {ustored.requested, MinDebounce}
        /\ ustored.debounce_time >= MinDebounce
        /\ ustored.debounce_time >= ustored.requested
        /\ ustored.requested >= MinDebounce
               => ustored.debounce_time = ustored.requested

\* C30 witness: a watcher was built with a request above 2 seconds, and
\* keeps the request
DebounceClampedAtConstructionWitness ==
    /\ ustored.built
    /\ ustored.requested > MinDebounce
    /\ ustored.debounce_time = ustored.requested

(***************************************************************************)
(* Further claims about the debounced FileWatcher (checked under Spec)     *)
(***************************************************************************)

\* C31 (as claimed): the debounce timer is not restarted by the arrival of
\* an event: when the task receives an event while an earlier one is still
\* waiting to be delivered, the time its timer has run is kept, so that the
\* waiting event is delivered within one debounce interval.
TimerNotRestartedByEvents ==
    [][ (/\ task.last_event # NoEvent
         /\ task.elapsed > 0
         /\ TaskRecv)
        => task'.elapsed >= task.elapsed ]_vars

\* C35 (as claimed): in every state reached through new, resume, pause,
\* stop and set_callback the state is Stopped exactly when the watcher holds
\* no OS subscription, and in Running and Paused there is one subscription
\* and one coalescing task, owned by the watcher.
SubscriptionAndTaskMatchState ==
    /\ (state = "Stopped") <=> ~watcher
    /\ (state \in {"Running", "Paused"} /\ ~should_exit)
           => (watcher /\ worker_handle /\ TaskRunning)

\* C36: cancellation wins over delivery.  A wait that the task entered with
\* the cancellation flag set ends after the cancellation wait, which is
\* shorter than the debounce interval: the debounce sleep of such a wait
\* never expires, no callback is invoked from it, and the exit of the task
\* delivers nothing, so that an event received and not yet delivered is
\* never delivered.
CancellationWinsOverDelivery ==
    /\ [](CancelPoll < debounce_time)
    /\ []((TaskRunning /\ task.armed)
            => task.elapsed <= CancelPoll /\ task.elapsed < debounce_time)
    /\ [][ (TaskRunning /\ task.armed) => calls' = calls ]_vars
    /\ [][ (task.armed /\ task'.status = "running")
           => task'.armed ]_vars
    /\ [][ task.status = "exited"
           => calls' = calls /\ task' = task ]_vars

\* C36 witness: the task has exited on the cancellation flag with an event
\* it had received for a registered callback and never delivered
CancellationWinsOverDeliveryWitness ==
    /\ task.status = "exited"
    /\ task.callback # 0
    /\ task.last_event # NoEvent
    /\ received # <<>>
    /\ calls = <<>>

(***************************************************************************)
(* Further claims about the orchestrator (checked under StrmSpec)          *)
(***************************************************************************)

\* C32: when the handling of an event fails, with a path error, a failed
\* placeholder write or a failed delete, the watch loop ends with that
\* error: watch_directory has returned it, the events still queued are
\* dropped with the channel, and no event is dispatched afterwards.
EventErrorsEndTheWatch ==
    /\ [][ (/\ last'.op = "event"
            /\ last'.err # ""
            /\ HandleEvent)
           => /\ wstatus' = "failed"
              /\ wchan' = <<>>
              /\ last'.err \in {"PathError", "Io", "RcloneError"} ]_vars
    /\ [][ wstatus = "failed"
           => /\ wstatus' = "failed"
              /\ wchan' = <<>>
              /\ (last'.op = "event" => last' = last) ]_vars
    /\ [](wchan # <<>> => wstatus = "watching")

\* C32 witness: the Remove event of a file whose mapped destination entry
\* does not exist has failed in the local delete, and watch_directory has
\* returned the error
EventErrorsEndTheWatchWitness ==
    /\ wstatus = "failed"
    /\ last.op = "event"
    /\ last.kind = "Remove"
    /\ last.err = "Io"
    /\ last.deletes # <<>>
    /\ last.deletes[1] \notin DOMAIN files

\* C33: the generation of the placeholders of a tree is fail-fast.  A
\* failure to read a directory or to write a placeholder ends
\* generate_strm_for_dir with that error: no list is returned, nothing but
\* the placeholders written before the failure has changed, and an Ok return
\* means that nothing was skipped, every media file of the tree having its
\* placeholder.  sync_directory then returns the error without a transfer:
\* no transfer command is launched and the destination keeps its files.
WalkIsFailFast ==
    /\ [](last.op = "generate_strm_for_dir" /\ last.err # ""
            => last.ret = <<>>)
    /\ [][ (/\ last'.op = "generate_strm_for_dir"
            /\ GenerateStrmForDir)
           => /\ DOMAIN files' = DOMAIN files \cup last'.writes
              /\ \A p \in DOMAIN files : files'[p] = files[p]
              /\ last'.err = ""
                   => \A f \in DOMAIN files' :
                          (f.root = "src" /\ IsMediaFile(config, f))
                              => WithExtension(f) \in DOMAIN files' ]_vars
    /\ [][ (/\ last'.op = "sync_directory"
            /\ last'.err = "Io"
            /\ Len(last'.strategy) = 2
            /\ SyncDirectory(last'.kind))
           => /\ \A i \in 1..Len(last'.tools) :
                     last'.tools[i].cmd \in {<<"rclone", "mkdir">>}
              /\ DOMAIN files' = DOMAIN files \cup last'.writes
              /\ \A p \in last'.writes : p.root = "src" ]_vars

\* C33 witness: sync_directory has returned the error of a walk that had
\* written one placeholder and failed before it wrote the placeholder of
\* another media file
WalkIsFailFastWitness ==
    /\ last.op = "sync_directory"
    /\ last.err = "Io"
    /\ Len(last.strategy) = 2
    /\ last.writes # {}
    /\ \E f \in DOMAIN files :
           /\ f.root = "src"
           /\ IsMediaFile(config, f)
           /\ WithExtension(f) \notin DOMAIN files

(***************************************************************************)
(* Further claims about the constructors and the strategies (checked       *)
(* under UnitSpec)                                                         *)
(***************************************************************************)

\* C34: the soft-delete directory is keyed by file name only.  A local
\* delete with a soft-delete directory moves the entry to
\* soft_delete_dir/<file name>, whatever directory it lay in, and replaces
\* what was there: the soft-delete directory never holds two entries with
\* one file name, and after two entries with the same name were deleted it
\* holds the second one only.
QuarantineKeyedByFileName ==
    /\ [](\A f, g \in DOMAIN udest :
            (f.root = "trash" /\ g.root = "trash" /\ f.name = g.name)
                => f = g)
    /\ [](\A f \in DOMAIN udest : f.root = "trash" => f.dir = <<>>)
    /\ [][ (/\ uanswer'.op = "delete"
            /\ uanswer'.err = ""
            /\ ~uconfig.rclone_remote
            /\ uconfig.soft_delete_dir
            /\ StrategyDelete)
           => LET path == uanswer'.path
                  target == [root |-> "trash", dir |-> <<>>,
                             name |-> path.name]
              IN  /\ path \in DOMAIN udest
                  /\ DOMAIN udest' = (DOMAIN udest \ {path}) \cup {target}
                  /\ udest'[target] = udest[path] ]_vars

\* C34 witness: both entries named a.strm were soft-deleted; the soft-delete
\* directory holds one a.strm, the second one deleted, and the first is
\* nowhere
QuarantineKeyedByFileNameWitness ==
    /\ ~uconfig.rclone_remote
    /\ uconfig.soft_delete_dir
    /\ uanswer.op = "delete"
    /\ uanswer.err = ""
    /\ DOMAIN udest = {[root |-> "trash", dir |-> <<>>,
                        name |-> <<"a", ".", "s", "t", "r", "m">>]}
    /\ \A f \in DOMAIN udest : udest[f] = [uanswer.path EXCEPT !.root = "src"]

\* ---------------------------------------------------------------------
\* Further claims about DirSyncHelper::sync (checked under DirSpec)
\* ---------------------------------------------------------------------

WatchNeverReturnsOk ==
    /\ [](wstatus \in {"idle", "watching", "failed"})
    /\ [][ (wstatus = "watching" /\ wstatus' # "watching")
           => /\ wstatus' = "failed"
              /\ last'.op = "event"
              /\ last'.err # ""
              /\ HandleEvent ]_vars
    /\ [][ (/\ wstatus = "watching"
            /\ last'.op = "event"
            /\ last'.err = ""
            /\ HandleEvent)
           => wstatus' = "watching" ]_vars

\* C38 witness: the loop has handled an event without error and waits on
\* the drained channel, still subscribed
WatchNeverReturnsOkWitness ==
    /\ wstatus = "watching"
    /\ wchan = <<>>
    /\ last.op = "event"
    /\ last.err = ""

(***************************************************************************)
(* Claims about concurrent generate_strm calls (checked under UnitSpec)    *)
(***************************************************************************)

\* C39: placeholder creation is safe under interleaving.  Whatever the
\* order in which the steps of concurrent generate_strm calls are taken, a
\* placeholder path is written at most once, and the content a placeholder
\* got with its first write is never replaced.
PlaceholderWrittenAtMostOnce ==
    /\ [](\A i, j \in DOMAIN ugen.writes :
              ugen.writes[i].path = ugen.writes[j].path => i = j)
    /\ [][ \A p \in DOMAIN ugen.files :
               /\ p \in DOMAIN ugen'.files
               /\ ugen'.files[p] = ugen.files[p] ]_vars

(***************************************************************************)
(* Claims about unsupported operations (checked under StrmSpec)            *)
(***************************************************************************)

\* what C40 says of a sync_directory call that returned `err`: no copy and
\* no sync of the strategy was invoked and no transfer tool was launched,
\* and if the error is UnsupportedOperation both earlier steps have run:
\* the destination directory exists and every media file below src has its
\* placeholder
RejectedAfterGeneration ==
    /\ last'.strategy \in {<<"ensure_directory">>,
                           <<"ensure_directory", "generate_strm_for_dir">>}
    /\ \A i \in DOMAIN last'.tools :
           last'.tools[i].cmd = <<"rclone", "mkdir">>
    /\ \A g \in DOMAIN files :
           g.root = DestRoot(config)
               => g \in DOMAIN files' /\ files'[g] = files[g]
    /\ last'.err = "UnsupportedOperation"
           => /\ last'.strategy
                    = <<"ensure_directory", "generate_strm_for_dir">>
              /\ Dir(DestRoot(config), <<>>) \in dirs'
              /\ \A f \in DOMAIN files' :
                     (/\ f.root = "src"
                      /\ \/ CheckExtension(f, config.video_extensions)
                         \/ CheckExtension(f, config.audio_extensions))
                         => WithExtension(f) \in DOMAIN files'

\* C40 (as claimed): sync_directory with an operation other than "copy" or
\* "sync" returns UnsupportedOperation, without a copy or sync of the
\* strategy, and with the destination directory and the placeholders of src
\* in place.
UnsupportedOperationAlwaysReturned ==
    [][ (/\ last'.op = "sync_directory"
         /\ last'.kind = "move"
         /\ SyncDirectory("move"))
        => /\ last'.err = "UnsupportedOperation"
           /\ RejectedAfterGeneration ]_vars

\* C40 (amended): sync_directory with an operation other than "copy" or
\* "sync" never invokes the strategy's copy or sync and never returns Ok.
\* It returns UnsupportedOperation if ensure_directory and the generation
\* of the placeholders succeed, with the destination directory and the
\* placeholders of src in place, and the error of the first of the two
\* that fails otherwise.
UnsupportedOperationAfterGeneration ==
    [][ (/\ last'.op = "sync_directory"
         /\ last'.kind = "move"
         /\ SyncDirectory("move"))
        => /\ last'.err \in {"UnsupportedOperation", "Io", "RcloneError"}
           /\ last'.err # "UnsupportedOperation"
                  => \/ /\ last'.strategy = <<"ensure_directory">>
                        /\ files' = files
                     \/ /\ last'.strategy
                              = <<"ensure_directory", "generate_strm_for_dir">>
                        /\ last'.err = "Io"
           /\ RejectedAfterGeneration ]_vars

\* C40 witness: a "move" on a local FileSync whose destination did not
\* exist has returned UnsupportedOperation after it created the
\* destination and wrote a placeholder
UnsupportedOperationAfterGenerationWitness ==
    /\ last.op = "sync_directory"
    /\ last.kind = "move"
    /\ last.err = "UnsupportedOperation"
    /\ last.writes # {}
    /\ last.tools = <<>>
    /\ Dir("dst", <<>>) \in dirs
    /\ nSteps = 1

====
